---- MODULE Spec2Model ----
(***************************************************************************)
(* Model of the agent core of CoWork-app: the AgentPlanner (planTask,      *)
(* parsePlanResponse, determinePlanStrategy, optimizePlan/topologicalSort) *)
(* and the ParallelExecutor (executePlan with its sequential, parallel and *)
(* mixed strategies, executeTask with its retries).                        *)
(*                                                                         *)
(* Spec        : a plan is produced (by planTask or by a caller literal)   *)
(*               and run by executePlan.                                   *)
(* SpecPlanner : planTask over the backend outcomes, then optimizePlan.    *)
(* SpecTools   : executePlan on small plans, with every tool outcome and   *)
(*               every configuration.                                      *)
(* SpecMixed   : the mixed strategy, with the progress the runtime gives.  *)
(* SpecRLM     : RLMExecutor.execute with its four strategies.             *)
(***************************************************************************)
EXTENDS Integers, Sequences, FiniteSets, TLC

VARIABLES
    pc,               \* position of the caller: idle, planned, optimized, sortError, executing, returned
    plan,             \* the TaskPlan object (NoPlan before planning)
    optimized,        \* the TaskPlan object returned by optimizePlan (NoPlan before)
    status,           \* Task.status, per task id
    retries,          \* Task.retries, per task id
    error,            \* Task.error, per task id
    results,          \* executePlan's results map: task id -> value
    failedTasks,      \* executePlan's failedTasks array (task ids, in push order)
    pending,          \* executeMixed's pending set
    inProgress,       \* executeMixed's inProgress set
    loop,             \* position of the strategy loop: head, await, race, sleep, break, none
    cursor,           \* index of the current task (sequential) or batch (parallel)
    awaited,          \* the promises the loop is awaiting (ids of their tasks)
    maxParallelTasks, \* ParallelExecutor.maxParallelTasks
    maxRetries,       \* ParallelExecutor.maxRetries
    success,          \* the success flag returned by executePlan ("none" before it returns)
    thrown,           \* message of the exception the last planner call raised ("" if none)
    asked,            \* the userRequest planTask was called with ("" if it was not called)
    reply,            \* the backend's outcome for planTask's call (NoReply if none)
    config,           \* the config object the ParallelExecutor was constructed with
    invocations,      \* calls of toolRegistry.execute, per task id
    callbacks,        \* calls of the observer callbacks, per task id
    rlmPc,            \* position of the RLMExecutor: none, idle, running, returned
    rlmConfig,        \* the config object the RLMExecutor was constructed with
    rlmInput,         \* the strategy and the context execute was called with
    phase,            \* position of the strategy: direct, map, reduce, decompose, ...
    trajectory,       \* RLMExecutor.trajectory: the calls made, in push order
    expired,          \* Date.now() - startTime >= maxExecutionTime
    rlmResult,        \* the RLMExecutionResult execute returned (NoResult before)
    reflTask,         \* the Task a caller hands to the AgentReflector (NoTask before)
    reflections,      \* what analyzeResult returned for it, call after call
    clock,            \* Date.now(), for an RLMExecutor whose execute is called twice
    executor,         \* that RLMExecutor: maxExecutionTime, startTime, trajectory (NoExecutor before)
    heap,             \* the arrays its execute calls have created, by identity
    invocation,       \* its two execute invocations: position, start, calls made, result
    resolveInput,     \* the task and results map resolveDependencies is called with
    resolved,         \* what resolveDependencies returned or threw (NotResolved before)
    chunkInput,       \* the data and ChunkingStrategy DataChunker.chunk is called with
    chunkStart,       \* fixedSizeChunking's local variable start
    chunksOut,        \* the chunks array being built, then returned
    chunkPc           \* position of the chunker: idle, loop, done

\* the state of the planner and of the ParallelExecutor
agentVars == <<pc, plan, optimized, status, retries, error, results, failedTasks,
               pending, inProgress, loop, cursor, awaited, maxParallelTasks,
               maxRetries, success, thrown, asked, reply, config, invocations,
               callbacks>>

\* the state of the RLMExecutor
rlmVars == <<rlmPc, rlmConfig, rlmInput, phase, trajectory, expired, rlmResult>>

\* the state of a caller of the AgentReflector
reflVars == <<reflTask, reflections>>

\* an RLMExecutor shared by two execute invocations
sharedVars == <<clock, executor, heap, invocation>>

\* a call of ParallelExecutor.resolveDependencies
resolveVars == <<resolveInput, resolved>>

\* a call of DataChunker.chunk
chunkVars == <<chunkInput, chunkStart, chunksOut, chunkPc>>

extraVars == <<sharedVars, resolveVars, chunkVars>>

vars == <<agentVars, rlmVars, reflVars, extraVars>>

execVars == <<status, retries, error, results, failedTasks, pending, inProgress,
              loop, cursor, awaited, maxParallelTasks, maxRetries, success,
              config, invocations, callbacks>>

----------------------------------------------------------------------------
(* Bounds of the model *)

\* most tasks in a plan
MaxTasks == 3
\* most entries in one task's dependency list
MaxDeps == 2
\* most tasks in a backend response whose plan is also executed (Spec)
MaxExecItems == 1
\* most tasks in a backend response with light dependency lists (SpecPlanner)
MaxWide == 4
\* largest configured maxParallelTasks
MaxParallelCfg == 2
\* largest configured maxRetries
MaxRetryCfg == 1
\* most tasks in a plan run with every tool outcome and configuration (SpecTools)
MaxToolTasks == 2
\* most chunks the largest string variable of an RLM context splits into
MaxChunks == 3
\* most subtasks in a decomposition the backend answers with
MaxSubtasks == 2
\* largest configured maxRecursionDepth
MaxDepthCfg == 2
\* chunks of the string in the example of a failing map-reduce
ExampleChunks == 10
\* most tasks in a mixed plan whose tasks depend on at most one earlier task
MaxMixedTasks == 4
\* most calls of analyzeResult on one task
MaxReflections == 2

----------------------------------------------------------------------------
(* Helpers on sequences *)

Range(s) == {s[i] : i \in DOMAIN s}

\* sequences over S of length at most n
SeqsUpTo(S, n) == UNION {[1..k -> S] : k \in 0..n}

NoRepeat(s) == \A i, j \in DOMAIN s : i # j => s[i] # s[j]

\* Array.prototype.filter
RECURSIVE FilterSeq(_, _)
FilterSeq(s, Keep) ==
    IF s = <<>> THEN <<>>
    ELSE IF Head(s) \in Keep THEN <<Head(s)>> \o FilterSeq(Tail(s), Keep)
         ELSE FilterSeq(Tail(s), Keep)

----------------------------------------------------------------------------
(* Tasks and plans *)

NoPlan == [none |-> TRUE]

\* the identifier planTask gives to the task at index idx
IdNames == <<"task-0", "task-1", "task-2", "task-3", "task-4", "task-5">>
TaskIdOf(idx) == IdNames[idx + 1]

\* a dependency string that names no task
Ghost == "task-x"

FirstIds(n) == {TaskIdOf(i) : i \in 0..(n - 1)}

\* tool: "none" stands for an unset tool field
NewTask(id, description, tool, dependencies) ==
    [id |-> id, description |-> description, tool |-> tool,
     dependencies |-> dependencies]

Ids(tasks) == {tasks[i].id : i \in DOMAIN tasks}

\* tasks.find(t => t.id === id); undefined is modelled by the caller's guard
FindIndex(tasks, id) ==
    IF \E i \in DOMAIN tasks : tasks[i].id = id
    THEN CHOOSE i \in DOMAIN tasks :
             tasks[i].id = id /\ \A j \in DOMAIN tasks : tasks[j].id = id => i <= j
    ELSE 0

----------------------------------------------------------------------------
(* JSON values a backend response can carry (src/lib/utils/validation.ts) *)

JUndef == [type |-> "undefined", text |-> ""]
JStr(s) == [type |-> "string", text |-> s]
JNum == [type |-> "number", text |-> "7"]
JNull == [type |-> "null", text |-> ""]
JObj == [type |-> "object", text |-> ""]
JArr == [type |-> "array", text |-> ""]

\* a dependencies field: undefined, an array of scalars, or another value
DepsField(type, items) == [type |-> type, items |-> items]

\* an element of data.tasks
Item(type, description, tool, args, dependencies) ==
    [type |-> type, description |-> description, tool |-> tool, args |-> args,
     dependencies |-> dependencies]

\* the parsed value: data, with data.tasks
Data(type, tasksType, items) ==
    [type |-> type, tasks |-> [type |-> tasksType, items |-> items]]

isArray(v) == v.type = "array"
isObject(v) == v.type = "object"
isString(v) == v.type = "string"

validateTaskPlan(data) ==
    IF ~isObject(data) THEN FALSE
    ELSE IF ~isArray(data.tasks) THEN FALSE
    ELSE \A i \in DOMAIN data.tasks.items :
            LET task == data.tasks.items[i] IN
            IF ~isObject(task) THEN FALSE
            ELSE IF ~isString(task.description) THEN FALSE
            ELSE IF task.tool.type # "undefined" /\ ~isString(task.tool) THEN FALSE
            ELSE IF task.args.type # "undefined" /\ ~isObject(task.args) THEN FALSE
            ELSE IF task.dependencies.type # "undefined"
                 THEN IF ~isArray(task.dependencies) THEN FALSE
                      ELSE \A k \in DOMAIN task.dependencies.items :
                              isString(task.dependencies.items[k])
                 ELSE TRUE

\* A response text: prose around at most one {...} block, which is either
\* not parsable by JSON.parse ("garbled") or the serialisation of data.
Text(prose, block, data) == [prose |-> prose, block |-> block, data |-> data]

NoData == Data("undefined", "undefined", <<>>)

\* null when the text holds no {...}
extractJSON(text) ==
    IF text.block = "none" THEN [found |-> FALSE, block |-> "none", data |-> NoData]
    ELSE [found |-> TRUE, block |-> text.block, data |-> text.data]

\* variant: the parsed value is returned without running the validator
safeJSONParseUnchecked(json) ==
    IF json.block = "garbled" THEN [ok |-> FALSE, data |-> NoData]
    ELSE [ok |-> TRUE, data |-> json.data]

\* JSON.parse, then the validator; null on a parse error or an invalid value
safeJSONParse(json) ==
    IF json.block = "garbled" THEN [ok |-> FALSE, data |-> NoData]
    ELSE IF validateTaskPlan(json.data) THEN [ok |-> TRUE, data |-> json.data]
    ELSE [ok |-> FALSE, data |-> NoData]

----------------------------------------------------------------------------
(* AgentPlanner (src/lib/agent/planner.ts) *)

Falsy(v) == v.type \in {"undefined", "null"} \/ (v.type = "string" /\ v.text = "")

\* [thrown, tasks]: thrown # "" when parsePlanResponse throws
parsePlanResponse(response) ==
    LET jsonStr == extractJSON(response)
        planData == safeJSONParse(jsonStr)
    IN IF ~jsonStr.found
       THEN [thrown |-> "No JSON found in planning response", tasks |-> <<>>]
       ELSE IF ~planData.ok
       THEN [thrown |-> "Invalid task plan structure", tasks |-> <<>>]
       ELSE [thrown |-> "",
             tasks |-> [i \in DOMAIN planData.data.tasks.items |->
                 LET t == planData.data.tasks.items[i] IN
                 NewTask(TaskIdOf(i - 1),
                         IF Falsy(t.description) THEN "Unnamed task"
                         ELSE t.description.text,
                         IF t.tool.type = "undefined" THEN "none" ELSE t.tool.text,
                         IF t.dependencies.type = "undefined" THEN <<>>
                         ELSE [k \in DOMAIN t.dependencies.items |->
                                  t.dependencies.items[k].text])]]

\* variant: three tasks with a dependency already make the plan mixed
determinePlanStrategyFrom3(tasks) ==
    LET hasDependencies == \E i \in DOMAIN tasks : Len(tasks[i].dependencies) > 0
    IN IF ~hasDependencies /\ Len(tasks) > 1 THEN "parallel"
       ELSE IF hasDependencies /\ Len(tasks) >= 3 THEN "mixed"
       ELSE "sequential"

determinePlanStrategy(tasks) ==
    LET hasDependencies == \E i \in DOMAIN tasks : Len(tasks[i].dependencies) > 0
    IN IF ~hasDependencies /\ Len(tasks) > 1 THEN "parallel"
       ELSE IF hasDependencies /\ Len(tasks) > 3 THEN "mixed"
       ELSE "sequential"

NewPlan(request, tasks, strategy) ==
    [originalRequest |-> request, tasks |-> tasks, strategy |-> strategy,
     status |-> "planning", completedTasks |-> 0, totalTasks |-> Len(tasks)]

createFallbackPlan(userRequest) ==
    NewPlan(userRequest, <<NewTask("task-0", userRequest, "none", <<>>)>>,
            "sequential")

\* outcome: [kind |-> "throw" | "text", text |-> the response]
planTask(userRequest, outcome) ==
    IF outcome.kind = "throw" THEN createFallbackPlan(userRequest)
    ELSE LET parsed == parsePlanResponse(outcome.text) IN
         IF parsed.thrown # "" THEN createFallbackPlan(userRequest)
         ELSE NewPlan(userRequest, parsed.tasks, determinePlanStrategy(parsed.tasks))

\* topologicalSort: st = [sorted, visited, visiting, thrown]
RECURSIVE visit(_, _, _)
RECURSIVE visitDeps(_, _, _, _)

\* variant: the task is pushed before its dependencies are visited
visitPushFirst(tasks, i, st) ==
    LET task == tasks[i] IN
    IF st.thrown # "" THEN st
    ELSE IF task.id \in st.visited THEN st
    ELSE IF task.id \in st.visiting
    THEN [st EXCEPT !.thrown = "Circular dependency detected"]
    ELSE LET entered == [st EXCEPT !.visiting = @ \cup {task.id},
                                   !.sorted = Append(@, task)]
             after == visitDeps(tasks, task.dependencies, 1, entered)
         IN IF after.thrown # "" THEN after
            ELSE [after EXCEPT !.visiting = @ \ {task.id},
                               !.visited = @ \cup {task.id}]

\* variant: a task met again while it is being visited is skipped, not reported
visitNoCycleCheck(tasks, i, st) ==
    LET task == tasks[i] IN
    IF st.thrown # "" THEN st
    ELSE IF task.id \in st.visited \/ task.id \in st.visiting THEN st
    ELSE LET entered == [st EXCEPT !.visiting = @ \cup {task.id}]
             after == visitDeps(tasks, task.dependencies, 1, entered)
         IN IF after.thrown # "" THEN after
            ELSE [after EXCEPT !.visiting = @ \ {task.id},
                               !.visited = @ \cup {task.id},
                               !.sorted = Append(@, task)]

\* variant: a task already visited is visited (and pushed) again
visitRevisits(tasks, i, st) ==
    LET task == tasks[i] IN
    IF st.thrown # "" THEN st
    ELSE IF task.id \in st.visiting
    THEN [st EXCEPT !.thrown = "Circular dependency detected"]
    ELSE LET entered == [st EXCEPT !.visiting = @ \cup {task.id}]
             after == visitDeps(tasks, task.dependencies, 1, entered)
         IN IF after.thrown # "" THEN after
            ELSE [after EXCEPT !.visiting = @ \ {task.id},
                               !.visited = @ \cup {task.id},
                               !.sorted = Append(@, task)]

visit(tasks, i, st) ==
    LET task == tasks[i] IN
    IF st.thrown # "" THEN st
    ELSE IF task.id \in st.visited THEN st
    ELSE IF task.id \in st.visiting
    THEN [st EXCEPT !.thrown = "Circular dependency detected"]
    ELSE LET entered == [st EXCEPT !.visiting = @ \cup {task.id}]
             after == visitDeps(tasks, task.dependencies, 1, entered)
         IN IF after.thrown # "" THEN after
            ELSE [after EXCEPT !.visiting = @ \ {task.id},
                               !.visited = @ \cup {task.id},
                               !.sorted = Append(@, task)]

visitDeps(tasks, deps, k, st) ==
    IF k > Len(deps) \/ st.thrown # "" THEN st
    ELSE LET d == FindIndex(tasks, deps[k]) IN
         visitDeps(tasks, deps, k + 1, IF d # 0 THEN visit(tasks, d, st) ELSE st)

RECURSIVE visitAll(_, _, _)
visitAll(tasks, i, st) ==
    IF i > Len(tasks) \/ st.thrown # "" THEN st
    ELSE visitAll(tasks, i + 1, visit(tasks, i, st))

topologicalSort(tasks) ==
    visitAll(tasks, 1,
             [sorted |-> <<>>, visited |-> {}, visiting |-> {}, thrown |-> ""])

\* [thrown, plan]: the plan optimizePlan returns, unless topologicalSort throws
optimizePlan(p) ==
    LET s == topologicalSort(p.tasks) IN
    IF s.thrown # "" THEN [thrown |-> s.thrown, plan |-> NoPlan]
    ELSE [thrown |-> "",
          plan |-> [p EXCEPT !.tasks = s.sorted,
                             !.strategy = determinePlanStrategy(s.sorted)]]

----------------------------------------------------------------------------
(* The backend outcomes and requests the model draws from *)

Requests == {"summarize the report", "rename the module"}

DepIds(n) == FirstIds(n) \cup {Ghost}

\* dependency lists: distinct identifiers, in any order
DepLists(n) == {s \in SeqsUpTo(DepIds(n), MaxDeps) : NoRepeat(s)}

StrArray(s) == DepsField("array", [k \in DOMAIN s |-> JStr(s[k])])

WellFormedItems(n) ==
    {Item("object", JStr("step"), JStr("read_file"), JObj, StrArray(s)) :
        s \in DepLists(n)}

PlainItem == Item("object", JStr("step"), JStr("read_file"), JObj, StrArray(<<>>))

\* schema-valid items with absent or empty fields
OddItems ==
    {Item("object", JStr(""), JStr("read_file"), JObj, StrArray(<<>>)),
     Item("object", JStr("step"), JUndef, JObj, StrArray(<<>>)),
     Item("object", JStr("step"), JUndef, JObj, StrArray(<<"task-0">>)),
     Item("object", JStr("step"), JStr("read_file"), JUndef, StrArray(<<>>)),
     Item("object", JStr("step"), JStr("read_file"), JObj, DepsField("undefined", <<>>))}

\* items with one field of the wrong type
DefectItems ==
    {Item("number", JUndef, JUndef, JUndef, DepsField("undefined", <<>>)),
     Item("object", JUndef, JStr("read_file"), JObj, StrArray(<<>>)),
     Item("object", JNum, JStr("read_file"), JObj, StrArray(<<>>)),
     Item("object", JStr("step"), JNum, JObj, StrArray(<<>>)),
     Item("object", JStr("step"), JNull, JObj, StrArray(<<>>)),
     Item("object", JStr("step"), JStr("read_file"), JArr, StrArray(<<>>)),
     Item("object", JStr("step"), JStr("read_file"), JStr("x"), StrArray(<<>>)),
     Item("object", JStr("step"), JStr("read_file"), JObj, DepsField("string", <<>>)),
     Item("object", JStr("step"), JStr("read_file"), JObj,
          DepsField("array", <<JStr("task-0"), JNum>>))}

\* objects whose tasks array holds up to m well-formed items
GraphData(m) ==
    UNION {{Data("object", "array", items) : items \in [1..n -> WellFormedItems(n)]} :
              n \in 0..m}

\* objects with odd or defective items, or without a tasks array
OtherData ==
    UNION {{Data("object", "array", items) :
               items \in [1..n -> {PlainItem} \cup OddItems \cup DefectItems]} :
              n \in 1..2}
    \cup {Data("object", "undefined", <<>>), Data("object", "string", <<>>)}

Texts(m) ==
    {Text(FALSE, "json", d) : d \in GraphData(m)}
    \cup {Text(prose, "json", d) : prose \in BOOLEAN, d \in OtherData}
    \cup {Text(TRUE, "none", NoData), Text(FALSE, "garbled", NoData),
          Text(TRUE, "garbled", NoData)}

NoReply == [kind |-> "none", text |-> Text(FALSE, "none", NoData)]

BackendOutcomes(m) ==
    {[kind |-> "throw", text |-> Text(FALSE, "none", NoData)]}
    \cup {[kind |-> "text", text |-> t] : t \in Texts(m)}

\* light dependency lists: none, or the first task
LightItems ==
    {Item("object", JStr("step"), JStr("read_file"), JObj, StrArray(s)) :
        s \in {<<>>, <<TaskIdOf(0)>>}}

\* responses of more than MaxTasks and at most w tasks, with light items
WideOutcomes(w) ==
    {[kind |-> "text", text |-> Text(FALSE, "json", Data("object", "array", items))] :
        items \in UNION {[1..n -> LightItems] : n \in (MaxTasks + 1)..w}}

\* the outcomes planTask is studied on in SpecPlanner
PlannerOutcomes == BackendOutcomes(MaxTasks) \cup WideOutcomes(MaxWide)

----------------------------------------------------------------------------
(* Initial state: no plan yet, no executor *)

NoTasks == <<>>

\* a config field that is not given
Unset == -1

NoConfig == [maxParallelTasks |-> Unset, maxRetries |-> Unset]

NoCallbacks == [onProgress |-> 0, onTaskComplete |-> 0, onTaskFailed |-> 0]

NoRLMConfig == [maxRecursionDepth |-> Unset]

NoInput == [strategy |-> "none", context |-> [kind |-> "small"]]

NoResult == [none |-> TRUE]

\* Task.error: absent, or a string
NoError == [type |-> "undefined", text |-> ""]
ErrorText(text) == [type |-> "string", text |-> text]

NoTask == [status |-> "none", error |-> NoError]

\* the two execute invocations followed on one shared RLMExecutor
Invocations == 1..2

\* no RLMExecutor constructed yet
NoExecutor == [maxExecutionTime |-> 0, startTime |-> 0, trajectory |-> 0]

\* what execute has returned: nothing yet
NoOutcome == [success |-> "none", error |-> "", allCalls |-> 0, calls |-> <<>>]

\* an execute invocation that has not been made
NotCalled == [pc |-> "idle", began |-> 0, items |-> 0, made |-> 0, refusedAt |-> 0,
              last |-> <<0, 0>>, result |-> NoOutcome]

\* a value without fields: a string or a number, as the text that makes it up
Leaf(type, chars) == [type |-> type, chars |-> chars]
NoLeaf == Leaf("undefined", <<>>)

\* no entry in the results map
NoRecordedResult == [type |-> "undefined", chars |-> <<>>, k |-> NoLeaf]

NoResolveInput == [template |-> <<>>, result |-> NoRecordedResult]
NotResolved == [outcome |-> "none", x |-> <<>>]

NoChunkInput == [data |-> [type |-> "none", items |-> <<>>],
                 strategy |-> [method |-> "none", chunkSize |-> 0, overlap |-> 0]]


Init ==
    /\ pc = "idle"
    /\ plan = NoPlan
    /\ optimized = NoPlan
    /\ status = NoTasks
    /\ retries = NoTasks
    /\ error = NoTasks
    /\ results = NoTasks
    /\ failedTasks = <<>>
    /\ pending = {}
    /\ inProgress = {}
    /\ loop = "none"
    /\ cursor = 0
    /\ awaited = {}
    /\ maxParallelTasks = 0
    /\ maxRetries = 0
    /\ success = "none"
    /\ thrown = ""
    /\ asked = ""
    /\ reply = NoReply
    /\ config = NoConfig
    /\ invocations = NoTasks
    /\ callbacks = NoTasks
    /\ rlmPc = "none"
    /\ rlmConfig = NoRLMConfig
    /\ rlmInput = NoInput
    /\ phase = "none"
    /\ trajectory = <<>>
    /\ expired = FALSE
    /\ rlmResult = NoResult
    /\ reflTask = NoTask
    /\ reflections = <<>>
    /\ clock = 0
    /\ executor = NoExecutor
    /\ heap = <<>>
    /\ invocation = [r \in Invocations |-> NotCalled]
    /\ resolveInput = NoResolveInput
    /\ resolved = NotResolved
    /\ chunkInput = NoChunkInput
    /\ chunkStart = 0
    /\ chunksOut = <<>>
    /\ chunkPc = "idle"

\* the fields of fresh Task objects
FreshTasks(tasks) ==
    /\ status' = [id \in Ids(tasks) |-> "pending"]
    /\ retries' = [id \in Ids(tasks) |-> 0]
    /\ error' = [id \in Ids(tasks) |-> ""]
    /\ invocations' = [id \in Ids(tasks) |-> 0]
    /\ callbacks' = [id \in Ids(tasks) |-> NoCallbacks]

\* planner.planTask(userRequest, context), the backend answering with one of
\* the given outcomes
PlanTask(outcomes) ==
    /\ pc = "idle"
    /\ \E userRequest \in Requests, o \in outcomes :
          /\ asked' = userRequest
          /\ reply' = o
          /\ plan' = planTask(userRequest, o)
    /\ FreshTasks(plan'.tasks)
    /\ pc' = "planned"
    /\ UNCHANGED <<rlmVars, reflVars, extraVars, optimized, results, failedTasks, pending, inProgress, loop,
                   cursor, awaited, maxParallelTasks, maxRetries, success, thrown,
                   config>>

\* planner.optimizePlan(plan): returns a new plan object or throws
OptimizePlan ==
    /\ pc = "planned"
    /\ LET r == optimizePlan(plan) IN
       /\ thrown' = r.thrown
       /\ optimized' = r.plan
       /\ pc' = IF r.thrown = "" THEN "optimized" ELSE "sortError"
    /\ UNCHANGED <<plan, asked, reply>>
    /\ UNCHANGED execVars
    /\ UNCHANGED <<rlmVars, reflVars, extraVars>>

NextPlanner ==
    \/ PlanTask(PlannerOutcomes)
    \/ OptimizePlan

SpecPlanner == Init /\ [][NextPlanner]_vars

----------------------------------------------------------------------------
(* Plans a caller hands to executePlan directly (as the test suite does) *)

AllDepNames == IdNames \o <<Ghost>>

\* dependency lists for executed plans: distinct identifiers in a fixed order
\* (the executor only asks whether every entry has a result)
ExecDepLists(n) ==
    {FilterSeq(AllDepNames, S) : S \in {T \in SUBSET DepIds(n) : Cardinality(T) <= MaxDeps}}

Strategies == {"sequential", "parallel", "mixed"}

CallerPlans ==
    UNION {{NewPlan("caller",
                    [i \in 1..n |-> NewTask(TaskIdOf(i - 1), "step", "read_file", deps[i])],
                    strategy) :
               deps \in [1..n -> ExecDepLists(n)], strategy \in Strategies} :
              n \in 1..MaxTasks}

\* const plan = { tasks, strategy, ... } as TaskPlan, one of the given plans
CallerPlan(plans) ==
    /\ pc = "idle"
    /\ \E p \in plans : plan' = p
    /\ FreshTasks(plan'.tasks)
    /\ pc' = "planned"
    /\ UNCHANGED <<rlmVars, reflVars, extraVars, optimized, results, failedTasks, pending, inProgress, loop,
                   cursor, awaited, maxParallelTasks, maxRetries, success, thrown,
                   asked, reply, config>>

----------------------------------------------------------------------------
(* ParallelExecutor (src/lib/agent/executor.ts) *)

DefaultMaxParallelTasks == 5
DefaultMaxRetries == 2

TaskOf(id) == plan.tasks[FindIndex(plan.tasks, id)]

\* the ids of a list of tasks, in order
IdSeq(tasks) == [i \in DOMAIN tasks |-> tasks[i].id]

\* variant: one recorded dependency is enough
areDependenciesMetSome(task, res) ==
    \/ Len(task.dependencies) = 0
    \/ \E k \in DOMAIN task.dependencies : task.dependencies[k] \in DOMAIN res

\* variant: only a task without dependencies is ready
areDependenciesMetNoDeps(task, res) == Len(task.dependencies) = 0

areDependenciesMet(task, res) ==
    \/ Len(task.dependencies) = 0
    \/ \A k \in DOMAIN task.dependencies : task.dependencies[k] \in DOMAIN res

\* variant: each batch after the first starts one item early
BatchOverlap(tasks, batchSize, k) ==
    SubSeq(tasks, IF k = 1 THEN 1 ELSE (k - 1) * batchSize,
           IF k * batchSize < Len(tasks) THEN k * batchSize ELSE Len(tasks))

\* createBatches(items, batchSize)[k], k = 1, 2, ...
Batch(tasks, batchSize, k) ==
    SubSeq(tasks, (k - 1) * batchSize + 1,
           IF k * batchSize < Len(tasks) THEN k * batchSize ELSE Len(tasks))

\* variant: a last batch that is not full is dropped
NumBatchesFloor(tasks, batchSize) == Len(tasks) \div batchSize

NumBatches(tasks, batchSize) == (Len(tasks) + batchSize - 1) \div batchSize

\* config?.field || fallback
OrDefault(field, fallback) == IF field = Unset \/ field = 0 THEN fallback ELSE field

\* config objects: each field unset or one of the given numbers
Configs(parallel, budgets) ==
    [maxParallelTasks : {Unset} \cup parallel, maxRetries : {Unset} \cup budgets]

\* new ParallelExecutor(context, config) with one of the given config objects;
\* executor.executePlan(plan), up to the call of the strategy's method
ExecutePlan(configs) ==
    /\ pc = "planned"
    /\ \E c \in configs :
          /\ config' = c
          /\ maxParallelTasks' = OrDefault(c.maxParallelTasks, DefaultMaxParallelTasks)
          /\ maxRetries' = OrDefault(c.maxRetries, DefaultMaxRetries)
    /\ results' = NoTasks
    /\ failedTasks' = <<>>
    /\ plan' = [plan EXCEPT !.status = "executing"]
    /\ pending' = IF plan.strategy = "mixed" THEN Ids(plan.tasks) ELSE {}
    /\ inProgress' = {}
    /\ loop' = "head"
    /\ cursor' = 1
    /\ pc' = "executing"
    /\ UNCHANGED <<rlmVars, reflVars, extraVars, optimized, status, retries, error, awaited, success, thrown,
                   asked, reply, invocations, callbacks>>

\* variant: a task without tool is attempted once and not retried
StartedOnce(S) ==
    /\ status' = [id \in DOMAIN status |-> IF id \in S THEN "in_progress" ELSE status[id]]
    /\ retries' = retries
    /\ invocations' = [id \in DOMAIN invocations |->
                          IF id \in S /\ TaskOf(id).tool # "none"
                          THEN invocations[id] + 1 ELSE invocations[id]]
    /\ callbacks' = [id \in DOMAIN callbacks |->
                        IF id \in S
                        THEN [callbacks[id] EXCEPT !.onProgress = @ + 1]
                        ELSE callbacks[id]]

\* executeTask up to its first suspension, for every task of S: the status,
\* the onProgress callback, the call of the registry and, for a task without
\* tool, the retries that follow each other at once
Started(S) ==
    /\ status' = [id \in DOMAIN status |-> IF id \in S THEN "in_progress" ELSE status[id]]
    /\ retries' = [id \in DOMAIN retries |->
                      IF id \in S /\ TaskOf(id).tool = "none" /\ retries[id] < maxRetries
                      THEN maxRetries ELSE retries[id]]
    /\ invocations' = [id \in DOMAIN invocations |->
                          IF id \in S /\ TaskOf(id).tool # "none"
                          THEN invocations[id] + 1 ELSE invocations[id]]
    /\ callbacks' = [id \in DOMAIN callbacks |->
                        IF id \in S
                        THEN [callbacks[id] EXCEPT !.onProgress =
                                 @ + 1 + (retries'[id] - retries[id])]
                        ELSE callbacks[id]]

\* variant: plan.completedTasks is not updated
FinishedNoCount(failed, res) ==
    /\ plan' = [plan EXCEPT !.status = IF Len(failed) = 0 THEN "completed" ELSE "failed"]
    /\ success' = (Len(failed) = 0)
    /\ pc' = "returned"
    /\ loop' = "none"

\* variant: the plan's status is derived from the results, not from the failures
FinishedByResults(failed, res) ==
    /\ plan' = [plan EXCEPT !.status = IF Cardinality(DOMAIN res) > 0
                                       THEN "completed" ELSE "failed",
                            !.completedTasks = Cardinality(DOMAIN res)]
    /\ success' = (Len(failed) = 0)
    /\ pc' = "returned"
    /\ loop' = "none"

\* the end of executePlan, once the strategy's method has returned
Finished(failed, res) ==
    /\ plan' = [plan EXCEPT !.status = IF Len(failed) = 0 THEN "completed" ELSE "failed",
                            !.completedTasks = Cardinality(DOMAIN res)]
    /\ success' = (Len(failed) = 0)
    /\ pc' = "returned"
    /\ loop' = "none"

\* executeSequential: one turn of the for loop, or its end
SequentialStep ==
    /\ pc = "executing"
    /\ plan.strategy = "sequential"
    /\ loop \in {"head", "break"}
    /\ IF loop = "break" \/ cursor > Len(plan.tasks)
       THEN /\ Finished(failedTasks, results)
            /\ UNCHANGED <<status, retries, cursor, awaited, invocations, callbacks>>
       ELSE /\ Started({plan.tasks[cursor].id})
            /\ awaited' = {plan.tasks[cursor].id}
            /\ loop' = "await"
            /\ UNCHANGED <<plan, success, pc, cursor>>
    /\ UNCHANGED <<rlmVars, reflVars, extraVars, optimized, error, results, failedTasks, pending, inProgress,
                   maxParallelTasks, maxRetries, thrown, asked, reply, config>>

\* executeParallel: the next batch, once Promise.allSettled of the previous one
\* has resolved, or the end of the loop
ParallelStep ==
    /\ pc = "executing"
    /\ plan.strategy = "parallel"
    /\ \/ loop = "head"
       \/ loop = "await" /\ \A id \in awaited : status[id] # "in_progress"
    /\ IF cursor > NumBatches(plan.tasks, maxParallelTasks)
       THEN /\ Finished(failedTasks, results)
            /\ UNCHANGED <<status, retries, cursor, awaited, invocations, callbacks>>
       ELSE LET batch == Ids(Batch(plan.tasks, maxParallelTasks, cursor)) IN
            /\ Started(batch)
            /\ awaited' = batch
            /\ cursor' = cursor + 1
            /\ loop' = "await"
            /\ UNCHANGED <<plan, success, pc>>
    /\ UNCHANGED <<rlmVars, reflVars, extraVars, optimized, error, results, failedTasks, pending, inProgress,
                   maxParallelTasks, maxRetries, thrown, asked, reply, config>>

\* executeMixed: one turn of the while loop, entered at the start, when
\* Promise.race of the promises of the previous turn has settled, or when the
\* 100 ms timer has fired
MixedStep ==
    /\ pc = "executing"
    /\ plan.strategy = "mixed"
    /\ \/ loop = "head"
       \/ loop = "race" /\ \E id \in awaited : status[id] # "in_progress"
       \/ loop = "sleep"
    /\ LET ready == {id \in pending :
                        /\ areDependenciesMet(TaskOf(id), results)
                        /\ Cardinality(inProgress) < maxParallelTasks}
           remaining == FilterSeq(IdSeq(plan.tasks), pending)
       IN IF pending = {} /\ inProgress = {}
          THEN /\ Finished(failedTasks, results)
               /\ UNCHANGED <<status, retries, error, failedTasks, pending,
                              inProgress, awaited, invocations, callbacks>>
          ELSE IF ready = {} /\ inProgress = {}
          THEN /\ status' = [id \in DOMAIN status |->
                                IF id \in pending THEN "skipped" ELSE status[id]]
               /\ error' = [id \in DOMAIN error |->
                               IF id \in pending THEN "Unmet dependencies or deadlock"
                               ELSE error[id]]
               /\ failedTasks' = failedTasks \o remaining
               /\ pending' = {}
               /\ Finished(failedTasks', results)
               /\ UNCHANGED <<retries, inProgress, awaited, invocations, callbacks>>
          ELSE /\ pending' = pending \ ready
               /\ inProgress' = inProgress \cup ready
               /\ Started(ready)
               /\ awaited' = ready
               /\ loop' = IF ready # {} THEN "race" ELSE "sleep"
               /\ UNCHANGED <<plan, success, pc, error, failedTasks>>
    /\ UNCHANGED <<rlmVars, reflVars, extraVars, optimized, results, cursor, maxParallelTasks, maxRetries,
                   thrown, asked, reply, config>>

\* variant: the sequential loop goes on to the next task after a failure
SettledNoBreak(id, failed) ==
    /\ inProgress' = inProgress \ {id}
    /\ IF plan.strategy = "sequential"
       THEN /\ loop' = "head"
            /\ cursor' = cursor + 1
       ELSE UNCHANGED <<loop, cursor>>

\* what the strategy's code does when executeTask(id) has resolved or rejected
Settled(id, failed) ==
    /\ inProgress' = inProgress \ {id}
    /\ IF plan.strategy = "sequential"
       THEN /\ loop' = IF failed THEN "break" ELSE "head"
            /\ cursor' = IF failed THEN cursor ELSE cursor + 1
       ELSE UNCHANGED <<loop, cursor>>

\* variant: the failed task is not pushed to failedTasks
FailedNotPushed(id, message) ==
    /\ status' = [status EXCEPT ![id] = "failed"]
    /\ error' = [error EXCEPT ![id] = message]
    /\ failedTasks' = failedTasks
    /\ callbacks' = [callbacks EXCEPT ![id].onTaskFailed = @ + 1]
    /\ Settled(id, TRUE)

\* the task's promise rejects: status failed, error recorded, pushed, observer told
Failed(id, message) ==
    /\ status' = [status EXCEPT ![id] = "failed"]
    /\ error' = [error EXCEPT ![id] = message]
    /\ failedTasks' = Append(failedTasks, id)
    /\ callbacks' = [callbacks EXCEPT ![id].onTaskFailed = @ + 1]
    /\ Settled(id, TRUE)

\* what a tool can resolve with: a plain value, or a failure payload
\* such as {success: false, error}
PlainValue == "value"
FailurePayload == "{success: false, error}"

\* toolRegistry.execute resolves for the task id with one of the given values
ToolReturns(id, values) ==
    /\ pc = "executing"
    /\ id \in DOMAIN status
    /\ status[id] = "in_progress"
    /\ TaskOf(id).tool # "none"
    /\ \E v \in values :
          results' = [k \in DOMAIN results \cup {id} |->
                         IF k = id THEN v ELSE results[k]]
    /\ status' = [status EXCEPT ![id] = "completed"]
    /\ callbacks' = [callbacks EXCEPT ![id].onTaskComplete = @ + 1]
    /\ Settled(id, FALSE)
    /\ UNCHANGED <<rlmVars, reflVars, extraVars, pc, plan, optimized, retries, error, failedTasks, pending,
                   awaited, maxParallelTasks, maxRetries, success, thrown, asked,
                   reply, config, invocations>>

\* toolRegistry.execute rejects for the task id: retry (executeTask again, up
\* to the next call of the registry), or give up
ToolThrows(id) ==
    /\ pc = "executing"
    /\ id \in DOMAIN status
    /\ status[id] = "in_progress"
    /\ TaskOf(id).tool # "none"
    /\ IF retries[id] < maxRetries
       THEN /\ retries' = [retries EXCEPT ![id] = @ + 1]
            /\ invocations' = [invocations EXCEPT ![id] = @ + 1]
            /\ callbacks' = [callbacks EXCEPT ![id].onProgress = @ + 1]
            /\ UNCHANGED <<status, error, failedTasks, inProgress, loop, cursor>>
       ELSE /\ Failed(id, "tool error")
            /\ UNCHANGED <<retries, invocations>>
    /\ UNCHANGED <<rlmVars, reflVars, extraVars, pc, plan, optimized, results, pending, awaited,
                   maxParallelTasks, maxRetries, success, thrown, asked, reply,
                   config>>

\* the rejection of a task without tool reaches the strategy's catch
NoToolRejects(id) ==
    /\ pc = "executing"
    /\ id \in DOMAIN status
    /\ status[id] = "in_progress"
    /\ TaskOf(id).tool = "none"
    /\ Failed(id, "Task has no tool specified")
    /\ UNCHANGED <<rlmVars, reflVars, extraVars, pc, plan, optimized, retries, results, pending, awaited,
                   maxParallelTasks, maxRetries, success, thrown, asked, reply,
                   config, invocations>>

\* the configurations of Spec: each field unset or a positive number
PlainConfigs == Configs(1..MaxParallelCfg, 1..MaxRetryCfg)

Next ==
    \/ PlanTask(BackendOutcomes(MaxExecItems))
    \/ CallerPlan(CallerPlans)
    \/ ExecutePlan(PlainConfigs)
    \/ SequentialStep
    \/ ParallelStep
    \/ MixedStep
    \/ \E id \in DOMAIN status : ToolReturns(id, {PlainValue})
    \/ \E id \in DOMAIN status : ToolThrows(id)
    \/ \E id \in DOMAIN status : NoToolRejects(id)

Spec == Init /\ [][Next]_vars

----------------------------------------------------------------------------
(* Tools and configurations in full, on plans of at most MaxToolTasks tasks *)

ToolPlans ==
    UNION {{NewPlan("caller",
                    [i \in 1..n |-> NewTask(TaskIdOf(i - 1), "step", "read_file", deps[i])],
                    strategy) :
               deps \in [1..n -> ExecDepLists(n)], strategy \in Strategies} :
              n \in 1..MaxToolTasks}

\* every budget from 0 on is configured, and the fields are left out as well
ToolConfigs == Configs({1}, 0..MaxRetryCfg)

NextTools ==
    \/ PlanTask(BackendOutcomes(MaxExecItems))
    \/ CallerPlan(ToolPlans)
    \/ ExecutePlan(ToolConfigs)
    \/ SequentialStep
    \/ ParallelStep
    \/ MixedStep
    \/ \E id \in DOMAIN status : ToolReturns(id, {PlainValue, FailurePayload})
    \/ \E id \in DOMAIN status : ToolThrows(id)
    \/ \E id \in DOMAIN status : NoToolRejects(id)

SpecTools == Init /\ [][NextTools]_vars

----------------------------------------------------------------------------
(* Mixed mode on its own, with the progress the runtime gives: the event    *)
(* loop resumes executeMixed when its race or timer has settled, and every  *)
(* tool invocation returns or throws.                                       *)

MixedPlans == {p \in CallerPlans : p.strategy = "mixed"}

NextMixed ==
    \/ CallerPlan(MixedPlans)
    \/ ExecutePlan(PlainConfigs)
    \/ MixedStep
    \/ \E id \in DOMAIN status : ToolReturns(id, {PlainValue})
    \/ \E id \in DOMAIN status : ToolThrows(id)

\* the pending call of toolRegistry.execute for the task id settles
ToolSettles(id) == ToolReturns(id, {PlainValue}) \/ ToolThrows(id)

SpecMixed ==
    /\ Init
    /\ [][NextMixed]_vars
    /\ WF_vars(MixedStep)
    /\ \A id \in FirstIds(MaxTasks) : WF_vars(ToolSettles(id))

\* the dependency lists of n tasks, each task depending on nothing or on one
\* earlier task
EarlierDeps(n) ==
    {deps \in [1..n -> {<<>>} \cup {<<TaskIdOf(j)>> : j \in 0..(n - 2)}] :
        \A i \in 1..n :
            deps[i] = <<>> \/ \E j \in 0..(i - 2) : deps[i] = <<TaskIdOf(j)>>}

\* mixed plans of that shape
TreePlans ==
    UNION {{NewPlan("caller",
                    [i \in 1..n |-> NewTask(TaskIdOf(i - 1), "step", "read_file", deps[i])],
                    "mixed") :
               deps \in EarlierDeps(n)} :
              n \in 1..MaxMixedTasks}

\* executeMixed on those plans
NextTrees ==
    \/ CallerPlan(TreePlans)
    \/ ExecutePlan(PlainConfigs)
    \/ MixedStep
    \/ \E id \in DOMAIN status : ToolReturns(id, {PlainValue})
    \/ \E id \in DOMAIN status : ToolThrows(id)

SpecTrees == Init /\ [][NextTrees]_vars

----------------------------------------------------------------------------
(* RLMExecutor (src/lib/rlm/executor.ts) *)

DefaultMaxRecursionDepth == 10

\* findLargestVariable returns null unless the largest size exceeds this
MinLargeSize == 1000
\* getSize of an array: its length times this
ArrayItemSize == 100
\* chunkData of an array: fixed-size chunks of this many items
ArrayChunkSize == 10

RLMStrategies ==
    {"map-reduce", "recursive-decomposition", "sequential-processing", "tree-traversal"}

\* The context, by its largest variable: none above the minimum size
\* ("small"), a string that semantic chunking splits into chunks pieces, an
\* array of length items, or another object.
SmallContext == [kind |-> "small"]
StringContext(chunks) == [kind |-> "string", chunks |-> chunks]
ArrayContext(length) == [kind |-> "array", length |-> length]
ObjectContext == [kind |-> "object"]

\* array lengths: the shortest array above the minimum size
ArrayLengths == {(MinLargeSize \div ArrayItemSize) + 1}

Contexts ==
    {SmallContext, ObjectContext}
    \cup {StringContext(c) : c \in 1..MaxChunks}
    \cup {ArrayContext(l) : l \in ArrayLengths}

\* findLargestVariable(context.variables) is not null
findLargestVariable(context) == context.kind # "small"

\* chunkData(varData).length
chunkData(context) ==
    IF context.kind = "string" THEN context.chunks
    ELSE IF context.kind = "array"
    THEN (context.length + ArrayChunkSize - 1) \div ArrayChunkSize
    ELSE 1

\* items.length in sequentialProcessingStrategy, were arrays chunked as well
ItemsChunked(context) == chunkData(context)

\* items.length in sequentialProcessingStrategy
Items(context) ==
    IF context.kind = "array" THEN context.length ELSE chunkData(context)

maxRecursionDepth == OrDefault(rlmConfig.maxRecursionDepth, DefaultMaxRecursionDepth)

\* the keys of the context object the caller passes to execute; the largest
\* variable, when there is one, is "data"
VariableNames == {"data", "notes"}

\* a key every object inherits from Object.prototype
InheritedNames == {"toString"}

\* the values of context variables and of results
Value(tag, name, idx, items) ==
    [tag |-> tag, name |-> name, idx |-> idx, items |-> items]

\* the value the caller gave to the variable
Whole(name) == Value("whole", name, 0, <<>>)
\* chunks[i], or items[i]
Piece(name, i) == Value("piece", name, i, <<>>)
Num(n) == Value("number", "", n, <<>>)
Null == Value("null", "", 0, <<>>)
Undefined == Value("undefined", "", 0, <<>>)
\* Object.prototype[name], a function
Inherited(name) == Value("function", name, 0, <<>>)
\* the text the provider returns for the call
Answer(callId) == Value("answer", callId.kind, callId.idx, <<>>)
List(values) == Value("list", "", 0, values)

\* rlmContext.variables in execute
Variables == [n \in VariableNames |-> Whole(n)]

\* {...variables, [name]: value}
Put(variables, name, value) ==
    [k \in DOMAIN variables \cup {name} |-> IF k = name THEN value ELSE variables[k]]

\* key in variables
In(key, variables) == key \in DOMAIN variables \/ key \in InheritedNames

\* filterVariables(variables, needs)
filterVariables(variables, needs) ==
    [k \in {key \in Range(needs) : In(key, variables)} |->
        IF k \in DOMAIN variables THEN variables[k] ELSE Inherited(k)]

\* serializeValue(value) is undefined: JSON.stringify of a function
Unprintable(variables) == \E k \in DOMAIN variables : variables[k].tag = "function"

\* a decomposition as the provider answers it
Decomposition(kind, subtasks) == [kind |-> kind, subtasks |-> subtasks]

NoDecomposition == Decomposition("none", <<>>)

\* an RLMCall as makeRLMCall pushes it; reply: what the text of the result
\* parses to, for the decompose call
Call(kind, idx, depth, variables) ==
    [callId |-> [kind |-> kind, idx |-> idx], depth |-> depth, status |-> "running",
     context |-> variables, result |-> Undefined, error |-> "",
     reply |-> NoDecomposition]

\* a subtask whose context cannot be built: filterVariables throws before
\* makeRLMCall is entered
Thrown(kind, idx, depth) == [Call(kind, idx, depth, Variables) EXCEPT !.status = "thrown"]

DepthError == "Max recursion depth exceeded"
TimeError == "Max execution time exceeded"
NoLength == "Cannot read properties of undefined (reading 'length')"
NotIterable == "needs is not iterable"
NotAFunction == "subtasks.map is not a function"
BackendError == "backend error"

\* Math.max(...[]) is -Infinity
MinusInfinity == -1

RECURSIVE MaxDepthOf(_)
MaxDepthOf(traj) ==
    IF traj = <<>> THEN MinusInfinity
    ELSE LET rest == MaxDepthOf(Tail(traj)) IN
         IF Head(traj).depth > rest THEN Head(traj).depth ELSE rest

\* buildTrajectory(), but for allCalls
buildTrajectory(traj) == [totalCalls |-> Len(traj), maxDepth |-> MaxDepthOf(traj)]

\* result.trajectory.allCalls: the array this.trajectory itself, not a copy
allCalls == trajectory

\* execute returns
Returns(traj, ok, message, value) ==
    /\ trajectory' = traj
    /\ rlmResult' = [success |-> ok, error |-> message, result |-> value,
                     trajectory |-> buildTrajectory(traj)]
    /\ rlmPc' = "returned"
    /\ phase' = "done"

\* what becomes of one call of a strategy, made in time or after the deadline
FateDepthAbove(call, inTime) ==
    IF call.status = "thrown" THEN "thrown"
    ELSE IF call.depth > maxRecursionDepth THEN "deep"
    ELSE IF ~inTime THEN "late"
    ELSE IF Unprintable(call.context) THEN "crash"
    ELSE "sent"

Fate(call, inTime) ==
    IF call.status = "thrown" THEN "thrown"
    ELSE IF call.depth >= maxRecursionDepth THEN "deep"
    ELSE IF ~inTime THEN "late"
    ELSE IF Unprintable(call.context) THEN "crash"
    ELSE "sent"

\* the error a call rejects with before the provider is awaited
ErrorOf(fate) ==
    CASE fate = "thrown" -> NotIterable
      [] fate = "deep" -> DepthError
      [] fate = "late" -> TimeError
      [] fate = "crash" -> NoLength

\* the calls pushed to this.trajectory, from the k-th on: those that pass the
\* two checks; buildPromptWithContext may then throw
RECURSIVE Pushed(_, _, _)
Pushed(calls, fate, k) ==
    IF k > Len(calls) THEN <<>>
    ELSE (IF fate[k] = "sent" THEN <<calls[k]>>
          ELSE IF fate[k] = "crash"
          THEN <<[calls[k] EXCEPT !.status = "failed", !.error = NoLength]>>
          ELSE <<>>)
         \o Pushed(calls, fate, k + 1)

Least(S) == CHOOSE x \in S : \A y \in S : x <= y

\* makeRLMCall for each of the calls in turn, up to the await of the
\* provider: the checks, the push, the prompt. The deadline is passed (late)
\* or passes after j of the calls; the first rejection rejects the strategy.
MakeCalls(traj, calls, nextPhase, late) ==
    \E j \in 0..Len(calls) :
        /\ late <=> j = 0
        /\ LET fate == [k \in DOMAIN calls |-> Fate(calls[k], k <= j)]
               rejected == {k \in DOMAIN calls : fate[k] # "sent"}
               after == traj \o Pushed(calls, fate, 1)
           IN /\ expired' = (j < Len(calls))
              /\ IF rejected # {}
                 THEN Returns(after, FALSE, ErrorOf(fate[Least(rejected)]), Undefined)
                 ELSE /\ trajectory' = after
                      /\ phase' = nextPhase
                      /\ rlmPc' = "running"
                      /\ UNCHANGED rlmResult

\* chunkContext.variables of the chunk idx of n
ChunkVariables(idx, n) ==
    Put(Put(Put(Variables, "data", Piece("data", idx)), "chunk_index", Num(idx)),
        "total_chunks", Num(n))

\* itemContext.variables of the item idx of n
ItemVariables(idx, n, accumulatedResult) ==
    Put(Put(Put(Put(Variables, "data", Piece("data", idx)),
                "previous_result", accumulatedResult), "item_index", Num(idx)),
        "total_items", Num(n))

\* the calls a strategy makes before its first await, and the phase it is then in
FirstCalls(strategy, context) ==
    IF strategy = "map-reduce"
    THEN IF ~findLargestVariable(context) \/ chunkData(context) = 1
         THEN [calls |-> <<Call("direct-call", 0, 0, Variables)>>, phase |-> "direct"]
         ELSE [calls |-> [i \in 1..chunkData(context) |->
                             Call("map", i - 1, 1,
                                  ChunkVariables(i - 1, chunkData(context)))],
               phase |-> "map"]
    ELSE IF strategy = "recursive-decomposition"
    THEN [calls |-> <<Call("decompose", 0, 0, Variables)>>, phase |-> "decompose"]
    ELSE IF strategy = "sequential-processing"
    THEN IF ~findLargestVariable(context)
         THEN [calls |-> <<Call("direct-call", 0, 0, Variables)>>, phase |-> "direct"]
         ELSE [calls |-> <<Call("seq", 0, 1, ItemVariables(0, Items(context), Null))>>,
               phase |-> "seq"]
    ELSE [calls |-> <<Call("tree-traversal", 0, 0, Variables)>>, phase |-> "direct"]

RLMConfigs == [maxRecursionDepth : {Unset} \cup 0..MaxDepthCfg]

\* new RLMExecutor(config) with one of the given config objects
NewRLMExecutor(configs) ==
    /\ rlmPc = "none"
    /\ \E c \in configs : rlmConfig' = c
    /\ rlmPc' = "idle"
    /\ UNCHANGED <<rlmInput, phase, trajectory, expired, rlmResult>>
    /\ UNCHANGED <<agentVars, reflVars, extraVars>>

\* executor.execute(task, context, strategy), up to the first await; late: the
\* deadline has passed when the first call is made
Execute(strategies, contexts) ==
    /\ rlmPc = "idle"
    /\ \E strategy \in strategies, context \in contexts, late \in BOOLEAN :
          /\ rlmInput' = [strategy |-> strategy, context |-> context]
          /\ LET first == FirstCalls(strategy, context) IN
             MakeCalls(<<>>, first.calls, first.phase, late)
    /\ UNCHANGED rlmConfig
    /\ UNCHANGED <<agentVars, reflVars, extraVars>>

\* the clock reaches startTime + maxExecutionTime
DeadlinePasses ==
    /\ rlmPc = "running"
    /\ ~expired
    /\ expired' = TRUE
    /\ UNCHANGED <<rlmPc, rlmConfig, rlmInput, phase, trajectory, rlmResult>>
    /\ UNCHANGED <<agentVars, reflVars, extraVars>>

\* Promise.all is still pending
StillRunningNever(traj) == FALSE

StillRunning(traj) == \E i \in DOMAIN traj : traj[i].status = "running"

\* the needs a subtask can declare: variables of the context, an inherited
\* key, a key that is nowhere
NeedNames == VariableNames \cup InheritedNames \cup {"ghost"}

NeedLists == {<<>>, <<"data", "notes">>} \cup {<<n>> : n \in NeedNames}

\* the items of a decomposition array: {subtask, needs}, or an item without
\* a needs array
SubtaskItems ==
    {[kind |-> "subtask", needs |-> l] : l \in NeedLists}
    \cup {[kind |-> "malformed", needs |-> <<>>]}

\* what the backend can answer to the decomposition prompt: text JSON.parse
\* throws on, JSON that is not an array, or an array of items
DecompositionReplies ==
    {Decomposition("unparsable", <<>>), Decomposition("nonArray", <<>>)}
    \cup {Decomposition("array", s) : s \in SeqsUpTo(SubtaskItems, MaxSubtasks)}

\* the result of the call of that kind and index
ResultOf(traj, kind, idx) ==
    traj[CHOOSE p \in DOMAIN traj : traj[p].callId = [kind |-> kind, idx |-> idx]].result

\* await Promise.all(promises) of n calls of that kind: their results, in the
\* order of the promises
PromiseAll(traj, kind, n) == [k \in 1..n |-> ResultOf(traj, kind, k - 1)]

\* the calls of subtasks.map
SubtaskCalls(subtasks) ==
    [k \in DOMAIN subtasks |->
        IF subtasks[k].kind = "malformed" THEN Thrown("subtask", k - 1, 1)
        ELSE Call("subtask", k - 1, 1, filterVariables(Variables, subtasks[k].needs))]

\* the strategy goes on after the call i has completed
Continue(traj, i) ==
    IF phase \in {"direct", "reduce", "combine"}
    THEN Returns(traj, TRUE, "", traj[i].result) /\ UNCHANGED expired
    ELSE IF phase = "map"
    THEN IF StillRunning(traj)
         THEN trajectory' = traj /\ UNCHANGED <<rlmPc, phase, rlmResult, expired>>
         ELSE LET mapResults == PromiseAll(traj, "map", chunkData(rlmInput.context)) IN
              MakeCalls(traj,
                        <<Call("reduce", 0, 1,
                               Put(Variables, "chunk_results", List(mapResults)))>>,
                        "reduce", expired)
    ELSE IF phase = "subtasks"
    THEN IF StillRunning(traj)
         THEN trajectory' = traj /\ UNCHANGED <<rlmPc, phase, rlmResult, expired>>
         ELSE LET subtaskResults ==
                      PromiseAll(traj, "subtask", Len(traj[1].reply.subtasks)) IN
              MakeCalls(traj,
                        <<Call("combine", 0, 1,
                               Put(Variables, "subtask_results", List(subtaskResults)))>>,
                        "combine", expired)
    ELSE IF phase = "decompose"
    THEN \E r \in DecompositionReplies :
            LET parsed == [traj EXCEPT ![i].reply = r] IN
            IF r.kind = "unparsable"
            THEN MakeCalls(parsed, <<Call("direct-call", 0, 0, Variables)>>,
                           "direct", expired)
            ELSE IF r.kind = "nonArray"
            THEN Returns(parsed, FALSE, NotAFunction, Undefined) /\ UNCHANGED expired
            ELSE IF r.subtasks = <<>>
            THEN MakeCalls(parsed,
                           <<Call("combine", 0, 1,
                                  Put(Variables, "subtask_results", List(<<>>)))>>,
                           "combine", expired)
            ELSE MakeCalls(parsed, SubtaskCalls(r.subtasks), "subtasks", expired)
    ELSE \* phase = "seq"
         IF traj[i].callId.idx + 1 < Items(rlmInput.context)
         THEN MakeCalls(traj,
                        <<Call("seq", traj[i].callId.idx + 1, 1,
                               ItemVariables(traj[i].callId.idx + 1,
                                             Items(rlmInput.context), traj[i].result))>>,
                        "seq", expired)
         ELSE Returns(traj, TRUE, "", traj[i].result) /\ UNCHANGED expired

\* the provider resolves for the call at position i of the trajectory
CallResolves(i) ==
    /\ rlmPc \in {"running", "returned"}
    /\ i \in DOMAIN trajectory
    /\ trajectory[i].status = "running"
    /\ LET traj == [trajectory EXCEPT ![i].status = "completed",
                                      ![i].result = Answer(trajectory[i].callId)] IN
       IF rlmPc = "returned"
       THEN trajectory' = traj /\ UNCHANGED <<rlmPc, phase, rlmResult, expired>>
       ELSE Continue(traj, i)
    /\ UNCHANGED <<rlmConfig, rlmInput>>
    /\ UNCHANGED <<agentVars, reflVars, extraVars>>

\* the provider rejects for the call at position i of the trajectory
CallRejects(i) ==
    /\ rlmPc \in {"running", "returned"}
    /\ i \in DOMAIN trajectory
    /\ trajectory[i].status = "running"
    /\ LET traj == [trajectory EXCEPT ![i].status = "failed",
                                      ![i].error = BackendError] IN
       IF rlmPc = "returned"
       THEN trajectory' = traj /\ UNCHANGED <<rlmPc, phase, rlmResult>>
       ELSE Returns(traj, FALSE, BackendError, Undefined)
    /\ UNCHANGED <<rlmConfig, rlmInput, expired>>
    /\ UNCHANGED <<agentVars, reflVars, extraVars>>

NextRLM ==
    \/ NewRLMExecutor(RLMConfigs)
    \/ Execute(RLMStrategies, Contexts)
    \/ DeadlinePasses
    \/ \E i \in DOMAIN trajectory : CallResolves(i)
    \/ \E i \in DOMAIN trajectory : CallRejects(i)

SpecRLM == Init /\ [][NextRLM]_vars

\* a string that semantic chunking splits into as many chunks as the example
\* of the map-reduce failure
ExampleContext == StringContext(ExampleChunks)

\* map-reduce over that string, with the default configuration
NextRLMExample ==
    \/ NewRLMExecutor({NoRLMConfig})
    \/ Execute({"map-reduce"}, {ExampleContext})
    \/ DeadlinePasses
    \/ \E i \in DOMAIN trajectory : CallResolves(i)
    \/ \E i \in DOMAIN trajectory : CallRejects(i)

SpecRLMExample == Init /\ [][NextRLMExample]_vars

----------------------------------------------------------------------------
(* AgentReflector (src/lib/agent/reflector.ts) *)

TaskStatuses == {"pending", "in_progress", "completed", "failed", "skipped"}

\* Task.error of a task handed to the reflector: absent, empty, or a message
StoredErrors == {NoError, ErrorText(""), ErrorText("tool failed")}

ReflectedTasks == [status : TaskStatuses, error : StoredErrors]

\* what callLLM gives: it throws (the backend is unreachable), text without
\* a JSON object or with one JSON.parse throws on, or a JSON object with a
\* success flag and perhaps a confidence
ReflectionReplies ==
    {[kind |-> k, success |-> FALSE, confidence |-> "undefined"] :
        k \in {"throw", "garbled"}}
    \cup [kind : {"json"}, success : BOOLEAN, confidence : {"undefined", "0.9"}]

Reflection(ok, confidence, issues, suggestions, shouldRetry) ==
    [success |-> ok, confidence |-> confidence, issues |-> issues,
     suggestions |-> suggestions, shouldRetry |-> shouldRetry]

\* [thrown, reflection]: thrown when extractJSON or JSON.parse throws
parseReflectionResponse(response) ==
    IF response.kind = "garbled"
    THEN [thrown |-> TRUE, reflection |-> Reflection(FALSE, "0", <<>>, <<>>, FALSE)]
    ELSE [thrown |-> FALSE,
          reflection |->
              Reflection(response.success,
                         IF response.confidence = "undefined" THEN "0.5"
                         ELSE response.confidence,
                         <<>>, <<>>, FALSE)]

createFallbackReflectionUnsure(task) ==
    Reflection(FALSE, "0.5", <<"Task did not complete">>, <<>>, FALSE)

createFallbackReflection(task) ==
    IF task.status = "completed"
    THEN Reflection(TRUE, "0.8", <<>>, <<>>, FALSE)
    ELSE IF task.status = "failed"
    THEN Reflection(FALSE, "0",
                    <<IF Falsy(task.error) THEN "Task failed" ELSE task.error.text>>,
                    <<"Try a different approach", "Check tool arguments">>, TRUE)
    ELSE Reflection(FALSE, "0.5", <<"Task did not complete">>, <<>>, FALSE)

\* [thrown, reflection] of analyzeResult(task) when callLLM gives the response
analyzeResult(task, response) ==
    IF response.kind = "throw"
    THEN [thrown |-> FALSE, reflection |-> createFallbackReflection(task)]
    ELSE LET parsed == parseReflectionResponse(response) IN
         IF parsed.thrown
         THEN [thrown |-> FALSE, reflection |-> createFallbackReflection(task)]
         ELSE parsed

\* a caller holds one of the given tasks
ReflectOn(tasks) ==
    /\ reflTask = NoTask
    /\ \E t \in tasks : reflTask' = t
    /\ UNCHANGED reflections
    /\ UNCHANGED <<agentVars, rlmVars, extraVars>>

\* await reflector.analyzeResult(task), the backend giving one of the replies
AnalyzeResult(replies) ==
    /\ reflTask # NoTask
    /\ Len(reflections) < MaxReflections
    /\ \E r \in replies :
          LET outcome == analyzeResult(reflTask, r) IN
          reflections' = Append(reflections,
                                [backend |-> r.kind, thrown |-> outcome.thrown,
                                 reflection |-> outcome.reflection])
    /\ UNCHANGED reflTask
    /\ UNCHANGED <<agentVars, rlmVars, extraVars>>

NextReflector ==
    \/ ReflectOn(ReflectedTasks)
    \/ AnalyzeResult(ReflectionReplies)

SpecReflector == Init /\ [][NextReflector]_vars

----------------------------------------------------------------------------
(* Dependency graphs, for the properties below *)

\* the tasks of the plan that the task id depends on directly
Direct(tasks, id) ==
    {d \in Ids(tasks) : \E i \in DOMAIN tasks :
                            tasks[i].id = id /\ d \in Range(tasks[i].dependencies)}

RECURSIVE Closure(_, _, _)
Closure(tasks, S, k) ==
    IF k = 0 THEN S
    ELSE Closure(tasks, S \cup UNION {Direct(tasks, x) : x \in S}, k - 1)

\* the tasks of the plan that the task id depends on, directly or transitively
TransDeps(tasks, id) == Closure(tasks, Direct(tasks, id), Len(tasks))

Cyclic(tasks) == \E id \in Ids(tasks) : id \in TransDeps(tasks, id)

\* every task of sorted comes after all the tasks it depends on in orig
TopoOrdered(orig, sorted) ==
    \A i \in DOMAIN sorted :
        \A d \in TransDeps(orig, sorted[i].id) :
            \E j \in DOMAIN sorted : j < i /\ sorted[j].id = d

Optimizing == pc \in {"optimized", "sortError"}

----------------------------------------------------------------------------
(* Properties of the executor, checked under Spec *)

Running == pc \in {"executing", "returned"}

Deps(id) == Range(TaskOf(id).dependencies)

Recorded == DOMAIN results

InProgressTasks == {id \in DOMAIN status : status[id] = "in_progress"}

\* the task id starts in this step
Starts(id) == status[id] = "pending" /\ status'[id] = "in_progress"

\* C1: in mixed mode a task is set to in_progress, and its tool invoked, only
\* when every identifier of its dependency list has an entry in the results
\* map; this also holds all the time the task is in progress (its retries).
C1_InFlightHasDeps ==
    (Running /\ plan.strategy = "mixed") =>
        \A id \in InProgressTasks : Deps(id) \subseteq Recorded

C1_StartStep ==
    (pc = "executing" /\ plan.strategy = "mixed") =>
        \A id \in DOMAIN status : Starts(id) => Deps(id) \subseteq Recorded

C1_MixedStartsAfterDeps == [](C1_InFlightHasDeps) /\ [][C1_StartStep]_vars

\* C1 witness: in mixed mode a task with a dependency is in progress, after
\* its dependency completed, while a task that depends on it is still pending.
C1_Witness ==
    /\ pc = "executing"
    /\ plan.strategy = "mixed"
    /\ \E id \in InProgressTasks :
          /\ Deps(id) # {}
          /\ \E other \in DOMAIN status :
                 status[other] = "pending" /\ id \in Deps(other)

\* C2 (as claimed): under each of the three strategies and every order of the
\* tasks, no task has started unless all its dependencies have a recorded result.
C2_NoStartBeforeDeps ==
    Running =>
        \A id \in DOMAIN status :
            status[id] \in {"in_progress", "completed", "failed"} =>
                Deps(id) \subseteq Recorded

\* C3 (as claimed): in parallel and mixed executions the number of tasks in
\* progress never exceeds maxParallelTasks.
C3_ConcurrencyBound ==
    (Running /\ plan.strategy \in {"parallel", "mixed"}) =>
        Cardinality(InProgressTasks) <= maxParallelTasks

\* C4 (as claimed): when executePlan has returned, every task with a dependency
\* that has no recorded result is skipped with the unmet-dependency error.
C4_UnresolvedAreSkipped ==
    pc = "returned" =>
        \A id \in DOMAIN status :
            ~(Deps(id) \subseteq Recorded) =>
                /\ status[id] = "skipped"
                /\ error[id] = "Unmet dependencies or deadlock"

\* the plan [A, B, C depends on A and B] with tools bound, run in mixed mode by
\* an executor with concurrency limit 2
IsABC ==
    /\ Running
    /\ plan.strategy = "mixed"
    /\ maxParallelTasks = 2
    /\ Len(plan.tasks) = 3
    /\ plan.tasks[1].dependencies = <<>>
    /\ plan.tasks[2].dependencies = <<>>
    /\ plan.tasks[3].dependencies = <<plan.tasks[1].id, plan.tasks[2].id>>
    /\ \A i \in 1..3 : plan.tasks[i].tool # "none"

\* no tool invocation has thrown (a throw is followed by a retry, which counts)
NoToolThrew == \A id \in DOMAIN status : retries[id] = 0 /\ status[id] # "failed"

\* C5: for the plan [A, B, C depends on A and B], mixed, limit 2: A and B are
\* started in the same step and are in progress together; C starts only after
\* both have a recorded result; and when executePlan returns after tools that
\* all succeeded, plan.completedTasks = 3.
C5_StartStep ==
    IsABC =>
        LET A == plan.tasks[1].id
            B == plan.tasks[2].id
            C == plan.tasks[3].id
        IN /\ (Starts(A) \/ Starts(B)) =>
                  status'[A] = "in_progress" /\ status'[B] = "in_progress"
           /\ Starts(C) => {A, B} \subseteq Recorded

C5_AtReturn ==
    (IsABC /\ pc = "returned" /\ NoToolThrew) =>
        /\ plan.completedTasks = 3
        /\ \A id \in DOMAIN status : status[id] = "completed"
        /\ success = TRUE

C5_MixedExample == [](C5_AtReturn) /\ [][C5_StartStep]_vars

\* C5 witness: executePlan has returned for that plan with no tool having
\* thrown.
C5_Witness == IsABC /\ pc = "returned" /\ NoToolThrew

\* C6: a plan is created with status planning; executePlan sets it to
\* executing before any task starts; when executePlan returns the status is
\* completed exactly when no task ended failed or skipped, failed otherwise,
\* and the returned success flag says whether it is completed.
C6_PlanLifecycle ==
    /\ pc = "planned" => plan.status = "planning"
    /\ pc = "executing" => plan.status = "executing"
    /\ (\E id \in DOMAIN status : status[id] # "pending") => plan.status # "planning"
    /\ pc = "returned" =>
          /\ plan.status \in {"completed", "failed"}
          /\ plan.status = "completed" <=>
                 \A id \in DOMAIN status : status[id] \notin {"failed", "skipped"}
          /\ success = (plan.status = "completed")

\* C6 witness: a plan made by planTask was executed and ended completed.
C6_Witness ==
    /\ pc = "returned"
    /\ reply # NoReply
    /\ plan.status = "completed"

----------------------------------------------------------------------------
(* Properties of the planner, checked under SpecPlanner *)

\* C7: for every plan whose dependency graph is acyclic, optimizePlan returns
\* and its task list is a topological order: every task comes after all the
\* tasks it depends on, directly or transitively.
C7_TopologicalOrder ==
    (Optimizing /\ ~Cyclic(plan.tasks)) =>
        /\ pc = "optimized"
        /\ TopoOrdered(plan.tasks, optimized.tasks)

\* C7 witness: a chain task-0 -> task-1 -> task-2 given in reverse order was
\* sorted, so that the order of the tasks changed.
C7_Witness ==
    /\ pc = "optimized"
    /\ Len(plan.tasks) = 3
    /\ "task-1" \in Range(plan.tasks[1].dependencies)
    /\ "task-2" \in Range(plan.tasks[2].dependencies)
    /\ optimized.tasks[1].id = "task-2"
    /\ optimized.tasks[3].id = "task-0"

C9_IsPermutation ==
    pc = "optimized" =>
        /\ Len(optimized.tasks) = Len(plan.tasks)
        /\ Range(optimized.tasks) = Range(plan.tasks)
        /\ \A i, j \in DOMAIN optimized.tasks :
               i # j => optimized.tasks[i].id # optimized.tasks[j].id

C9_InputUnchanged == (pc = "planned" /\ pc' # "planned") => plan' = plan

C9_Permutation == [](C9_IsPermutation) /\ [][C9_InputUnchanged]_vars

\* C9 witness: a plan with a dependency on an unknown identifier and a task
\* that two others depend on was sorted into a different order.
C9_Witness ==
    /\ pc = "optimized"
    /\ Len(plan.tasks) = 3
    /\ plan.tasks[1].dependencies = <<"task-2", "task-x">>
    /\ plan.tasks[2].dependencies = <<"task-2">>
    /\ optimized.tasks # plan.tasks

\* the schema of a plan response, as the design states it
SchemaValidItem(t) ==
    /\ t.type = "object"
    /\ t.description.type = "string"
    /\ t.tool.type \in {"undefined", "string"}
    /\ t.args.type \in {"undefined", "object"}
    /\ \/ t.dependencies.type = "undefined"
       \/ /\ t.dependencies.type = "array"
          /\ \A k \in DOMAIN t.dependencies.items :
                 t.dependencies.items[k].type = "string"

SchemaValidReply(o) ==
    /\ o.kind = "text"
    /\ o.text.block = "json"
    /\ o.text.data.type = "object"
    /\ o.text.data.tasks.type = "array"
    /\ \A i \in DOMAIN o.text.data.tasks.items :
           SchemaValidItem(o.text.data.tasks.items[i])

\* C10: for every backend outcome that is not a schema-valid plan (a thrown
\* error, text without JSON, unparsable JSON, wrong field types), planTask
\* returns without throwing a plan of exactly one task, with no tool and the
\* request as description, strategy sequential, status planning, totalTasks 1.
C10_FallbackPlan ==
    (reply # NoReply /\ ~SchemaValidReply(reply)) =>
        /\ pc # "idle"
        /\ Len(plan.tasks) = 1
        /\ plan.tasks[1].tool = "none"
        /\ plan.tasks[1].description = asked
        /\ plan.originalRequest = asked
        /\ plan.strategy = "sequential"
        /\ plan.status = "planning"
        /\ plan.totalTasks = 1
        /\ plan.completedTasks = 0

\* C10 witness: the backend answered with a JSON object one of whose tasks
\* has a tool that is not a string, and planTask returned.
C10_Witness ==
    /\ pc = "planned"
    /\ reply.kind = "text"
    /\ reply.text.block = "json"
    /\ \E i \in DOMAIN reply.text.data.tasks.items :
           reply.text.data.tasks.items[i].tool.type = "number"
    /\ Len(plan.tasks) = 1

\* C11 (as claimed): for every schema-valid backend response, the plan planTask
\* returns has only dependency identifiers that name a task of the plan, and
\* no task depends on itself directly or transitively.
C11_TaskInvariant ==
    (reply # NoReply /\ SchemaValidReply(reply)) =>
        /\ \A i \in DOMAIN plan.tasks :
               Range(plan.tasks[i].dependencies) \subseteq Ids(plan.tasks)
        /\ ~Cyclic(plan.tasks)

\* the classification of a task list, as the design states it
Classified(tasks, strategy) ==
    LET n == Len(tasks)
        someDependency == \E i \in DOMAIN tasks : tasks[i].dependencies # <<>>
    IN /\ strategy \in {"sequential", "parallel", "mixed"}
       /\ strategy = "parallel" <=> (~someDependency /\ n > 1)
       /\ strategy = "mixed" <=> (someDependency /\ n > 3)

\* C12: the strategy of the plan planTask returns, and of the plan optimizePlan
\* returns, is determined by the task list: parallel when no task has a
\* dependency and there is more than one task, mixed when some task has a
\* dependency and there are more than three tasks, sequential otherwise.
C12_StrategyClassification ==
    /\ pc # "idle" => Classified(plan.tasks, plan.strategy)
    /\ pc = "optimized" => Classified(optimized.tasks, optimized.strategy)

\* C12 witness: a response of four tasks, one with a dependency, was planned
\* as mixed and optimized.
C12_Witness ==
    /\ pc = "optimized"
    /\ Len(plan.tasks) = 4
    /\ plan.strategy = "mixed"
    /\ optimized.strategy = "mixed"

----------------------------------------------------------------------------
(* Properties of the three strategies, retries and tool outcomes *)

Untouched(id) ==
    /\ status[id] = "pending"
    /\ id \notin Recorded
    /\ callbacks[id] = NoCallbacks
    /\ invocations[id] = 0

\* C13: in sequential mode a task has left pending only when every task before
\* it in the plan is completed, so tasks start in plan order, one at a time,
\* and none starts after a failed one; a task that has not started is pending,
\* has no result, and no callback was called for it.
C13_SequentialOrder ==
    (Running /\ plan.strategy = "sequential") =>
        /\ \A i, j \in DOMAIN plan.tasks :
               (i < j /\ status[plan.tasks[j].id] # "pending") =>
                   status[plan.tasks[i].id] = "completed"
        /\ Cardinality(InProgressTasks) <= 1
        /\ \A i, j \in DOMAIN plan.tasks :
               (i < j /\ status[plan.tasks[i].id] = "failed") =>
                   Untouched(plan.tasks[j].id)

\* C13 witness: a sequential run has returned with the first task completed,
\* the second failed and the third never started.
C13_Witness ==
    /\ pc = "returned"
    /\ plan.strategy = "sequential"
    /\ Len(plan.tasks) = 3
    /\ status[plan.tasks[1].id] = "completed"
    /\ status[plan.tasks[2].id] = "failed"
    /\ Untouched(plan.tasks[3].id)

\* the batch (1, 2, ...) of the task at position i of the plan
BatchOf(i) == ((i - 1) \div maxParallelTasks) + 1

Ended(id) == status[id] \in {"completed", "failed"}

\* C14: in parallel mode the tasks are split in plan order into batches of
\* maxParallelTasks tasks; the tasks of a batch start together; no task of a
\* later batch has started unless every task of the earlier batches is
\* completed or failed; a failed task stops neither its siblings nor the later
\* batches: when executePlan returns every task has run and is completed or failed.
C14_BatchOrder ==
    (Running /\ plan.strategy = "parallel") =>
        /\ \A i, j \in DOMAIN plan.tasks :
               (BatchOf(i) < BatchOf(j) /\ status[plan.tasks[j].id] # "pending") =>
                   Ended(plan.tasks[i].id)
        /\ Cardinality(InProgressTasks) <= maxParallelTasks
        /\ pc = "returned" =>
               \A id \in DOMAIN status : Ended(id) /\ callbacks[id].onProgress > 0

C14_BatchStart ==
    (pc = "executing" /\ plan.strategy = "parallel") =>
        \A i, j \in DOMAIN plan.tasks :
            (BatchOf(i) = BatchOf(j) /\ Starts(plan.tasks[i].id)) =>
                Starts(plan.tasks[j].id)

C14_ParallelBatches == [](C14_BatchOrder) /\ [][C14_BatchStart]_vars

\* C14 witness: three tasks in batches of two; the first task failed, its
\* sibling completed, and the task of the second batch ran and completed.
C14_Witness ==
    /\ pc = "returned"
    /\ plan.strategy = "parallel"
    /\ maxParallelTasks = 2
    /\ Len(plan.tasks) = 3
    /\ status[plan.tasks[1].id] = "failed"
    /\ status[plan.tasks[2].id] = "completed"
    /\ status[plan.tasks[3].id] = "completed"

\* the retry budget the executor was configured with
Budget == IF config.maxRetries = Unset THEN DefaultMaxRetries ELSE config.maxRetries

Bound(id) == TaskOf(id).tool # "none"

\* C15 (as claimed): for every configured retry budget n >= 0 (2 when none is
\* configured) the tool of a task is invoked at most n + 1 times; a task that
\* ended failed was invoked exactly n + 1 times, has its error recorded and is
\* listed in failedTasks; a task that ended completed was invoked once more
\* than it was retried.
C15_RetryBudget ==
    Running =>
        \A id \in DOMAIN status :
            Bound(id) =>
                /\ invocations[id] <= Budget + 1
                /\ status[id] = "failed" =>
                       /\ invocations[id] = Budget + 1
                       /\ error[id] # ""
                       /\ id \in Range(failedTasks)
                /\ status[id] = "completed" => invocations[id] = retries[id] + 1

\* C16 (as claimed): a task whose tool returned a failure payload is handled
\* like one whose tool threw: it is never completed and the payload is never
\* recorded as its result.
C16_FailurePayloadFails ==
    Running =>
        \A id \in Recorded :
            results[id] = FailurePayload => status[id] # "completed"

\* C17: during a run of executePlan an entry of the results map is never
\* changed or removed; an entry is added only for a task in progress, which
\* thereby becomes completed; and a completed task stays completed, so its
\* entry is written once.  The recorded identifiers are the completed tasks.
C17_RecordedAreCompleted ==
    Running => Recorded = {id \in DOMAIN status : status[id] = "completed"}

C17_WriteStep ==
    pc = "executing" =>
        /\ \A id \in Recorded : id \in DOMAIN results' /\ results'[id] = results[id]
        /\ \A id \in (DOMAIN results') \ Recorded :
               status[id] = "in_progress" /\ status'[id] = "completed"
        /\ Cardinality((DOMAIN results') \ Recorded) <= 1
        /\ \A id \in DOMAIN status :
               status[id] = "completed" => status'[id] = "completed"

C17_WriteOnce == [](C17_RecordedAreCompleted) /\ [][C17_WriteStep]_vars

\* C17 witness: a mixed run returned with two entries in the results map, each
\* written by its own task, holding different values.
C17_Witness ==
    /\ pc = "returned"
    /\ plan.strategy = "mixed"
    /\ Cardinality(Recorded) = 2
    /\ \E a, b \in Recorded : results[a] # results[b]

\* C18: in mixed mode a task is skipped only by the step that ends the run;
\* when executePlan returns every task all of whose dependencies are
\* completed has been started and is completed or failed, not skipped,
\* whatever happened to the other tasks; and a task whose dependencies are
\* all completed eventually is completed or failed.
C18_AtReturn ==
    (pc = "returned" /\ plan.strategy = "mixed") =>
        \A id \in DOMAIN status :
            (\A d \in Deps(id) : d \in DOMAIN status /\ status[d] = "completed") =>
                /\ Ended(id)
                /\ callbacks[id].onProgress > 0

C18_NoSkipWhileRunning ==
    (pc = "executing" /\ plan.strategy = "mixed") =>
        \A id \in DOMAIN status : status[id] # "skipped"

\* the dependencies of the task id are all completed
DepsCompleted(id) ==
    /\ pc = "executing"
    /\ id \in DOMAIN status
    /\ \A d \in Deps(id) : d \in DOMAIN status /\ status[d] = "completed"

C18_EventuallyEnds ==
    \A id \in FirstIds(MaxTasks) :
        DepsCompleted(id) ~> (id \in DOMAIN status /\ Ended(id))

C18_UnrelatedWorkGoesOn ==
    /\ [](C18_AtReturn /\ C18_NoSkipWhileRunning)
    /\ C18_EventuallyEnds

\* C18 witness: in a mixed run one task failed, a task depending on it was
\* skipped, and a third task, independent of both, completed.
C18_Witness ==
    /\ pc = "returned"
    /\ plan.strategy = "mixed"
    /\ \E a, b, c \in DOMAIN status :
          /\ status[a] = "failed"
          /\ status[b] = "skipped" /\ Deps(b) = {a}
          /\ status[c] = "completed" /\ Deps(c) = {}

----------------------------------------------------------------------------
(* Properties of the RLMExecutor, checked under SpecRLM *)

\* the first call of the strategy is made one level down
RequiresRecursion ==
    FirstCalls(rlmInput.strategy, rlmInput.context).calls[1].depth > 0

\* C19 (as claimed): an executor configured with maxRecursionDepth = 0, run
\* with a strategy that requires recursion, sends no call to the model, and
\* execute returns success = false with the depth-exceeded error.
C19_DepthZeroRefuses ==
    (rlmPc \in {"running", "returned"} /\ rlmConfig.maxRecursionDepth = 0
        /\ RequiresRecursion) =>
        /\ Len(trajectory) = 0
        /\ rlmPc = "returned"
        /\ rlmResult.success = FALSE
        /\ rlmResult.error = DepthError

\* C20 (as claimed): for each of the four strategies, when execute has
\* returned successfully on a context with no variable above the minimum
\* size, the trajectory counts exactly one call.
C20_SmallInputOneCall ==
    (rlmPc = "returned" /\ rlmInput.context = SmallContext /\ rlmResult.success) =>
        rlmResult.trajectory.totalCalls = 1

----------------------------------------------------------------------------
(* A failing map call, checked under SpecRLMExample *)

\* the positions of the calls of that kind in the trajectory
CallsOf(kind) == {i \in DOMAIN allCalls : allCalls[i].callId.kind = kind}

FailedCalls == {i \in DOMAIN allCalls : allCalls[i].status = "failed"}

\* map-reduce over the example's chunks has returned, and the provider has
\* failed for exactly one call, a map call
OneChunkFailed ==
    /\ rlmPc = "returned"
    /\ rlmInput.strategy = "map-reduce"
    /\ chunkData(rlmInput.context) = ExampleChunks
    /\ Cardinality(FailedCalls) = 1
    /\ FailedCalls \subseteq CallsOf("map")
    /\ rlmResult.error = BackendError

\* C21 (as claimed): map-reduce over 10 chunks where exactly one chunk's call
\* fails returns success = false and no result, no reduce call is completed,
\* and the returned trajectory counts 11 calls.
C21_OneFailedChunk ==
    OneChunkFailed =>
        /\ rlmResult.success = FALSE
        /\ rlmResult.result = Undefined
        /\ \A i \in CallsOf("reduce") : allCalls[i].status # "completed"
        /\ rlmResult.trajectory.totalCalls = ExampleChunks + 1

\* what holds of the code: the same, but the trajectory counts the 10 map calls
C21_TenCallsRecorded ==
    OneChunkFailed =>
        /\ rlmResult.success = FALSE
        /\ rlmResult.result = Undefined
        /\ CallsOf("reduce") = {}
        /\ rlmResult.trajectory.totalCalls = ExampleChunks

----------------------------------------------------------------------------
(* The limits of the RLMExecutor, checked under SpecRLM *)

\* no call of the trajectory is at a depth the executor refuses
C22_NoCallPastDepth ==
    \A i \in DOMAIN allCalls : allCalls[i].depth < maxRecursionDepth

\* once the execution time is used up no call is added to the trajectory
C22_NoCallPastDeadline == expired => Len(trajectory') = Len(trajectory)

\* a limit does not end a call that is in flight: no call record fails with
\* the error of a limit
C22_InFlightGoesOn ==
    \A i \in DOMAIN allCalls : allCalls[i].error \notin {DepthError, TimeError}

\* the two refusals are told apart in result.error, and a refused first call
\* surfaces as the error of the limit that refused it
C22_RefusalSurfaces ==
    /\ DepthError # TimeError
    /\ rlmPc = "returned" =>
          /\ rlmResult.error = TimeError => (expired /\ ~rlmResult.success)
          /\ rlmResult.error = DepthError =>
                (~rlmResult.success /\ maxRecursionDepth <= 1)
          /\ allCalls = <<>> =>
                /\ ~rlmResult.success
                /\ rlmResult.error =
                      IF FirstCalls(rlmInput.strategy, rlmInput.context).calls[1].depth
                            >= maxRecursionDepth
                      THEN DepthError ELSE TimeError

\* C22: every call is checked before it is made: none is recorded at a depth
\* >= maxRecursionDepth (the executor's field) or once the execution time is
\* used up, a call in flight is not interrupted, and a refusal surfaces in
\* result.error as the depth error or as the time error.
C22_ChecksFirst ==
    /\ [](C22_NoCallPastDepth /\ C22_InFlightGoesOn /\ C22_RefusalSurfaces)
    /\ [][C22_NoCallPastDeadline]_vars

\* the time ran out after calls were made: the next call was refused while
\* another was in flight
C22_Witness ==
    /\ rlmPc = "returned"
    /\ rlmResult.error = TimeError
    /\ \E i \in DOMAIN allCalls : allCalls[i].status = "completed"
    /\ \E i \in DOMAIN allCalls : allCalls[i].status = "running"

\* the trajectory of the result counts the calls and gives their greatest
\* depth, a depth being a natural number
TrajectoryDescribesCalls ==
    /\ rlmResult.trajectory.totalCalls = Len(allCalls)
    /\ rlmResult.trajectory.maxDepth \in Nat
    /\ \A i \in DOMAIN allCalls : allCalls[i].depth <= rlmResult.trajectory.maxDepth
    /\ allCalls # <<>> =>
          \E i \in DOMAIN allCalls : allCalls[i].depth = rlmResult.trajectory.maxDepth

\* C23 (as claimed): whenever execute returns success = false, the result
\* carries a trajectory that lists every call started, with totalCalls their
\* number and maxDepth their greatest depth, also when the very first call
\* was refused.
C23_FailureCarriesTrajectory ==
    (rlmPc = "returned" /\ ~rlmResult.success) => TrajectoryDescribesCalls

\* what holds of the code: the same when at least one call was started
C23_AfterSomeCall ==
    (rlmPc = "returned" /\ ~rlmResult.success /\ allCalls # <<>>) =>
        TrajectoryDescribesCalls

\* C24 (as claimed): the trajectory execute returned is never mutated after
\* the return: no call record of it changes afterwards, also when a run
\* fails while sibling calls are in flight.
C24_ReturnedTrajectoryFrozen ==
    [][rlmPc = "returned" => allCalls' = allCalls]_vars

\* what holds of the code: after the return no call is added or removed, and
\* a call that had settled does not change
C24_SettledCallsFrozen ==
    [][rlmPc = "returned" =>
          /\ Len(allCalls') = Len(allCalls)
          /\ \A i \in DOMAIN allCalls :
                allCalls[i].status # "running" => allCalls'[i] = allCalls[i]]_vars

----------------------------------------------------------------------------
(* Readiness in mixed mode, checked under SpecTrees *)

\* pending tasks all of whose dependencies have recorded results
ReadyTasks == {id \in pending : Deps(id) \subseteq Recorded}

\* the while loop of executeMixed can take its next turn: it is not blocked
\* in Promise.race on tasks that are all still in flight
LoopCanTurn ==
    \/ loop \in {"head", "sleep"}
    \/ loop = "race" /\ \E id \in awaited : status[id] # "in_progress"

\* C27 (as claimed): in mixed mode readiness is recomputed as soon as any
\* in-flight task finishes, whichever turn launched it: while a pending task
\* has all its dependencies recorded and the concurrency budget permits, the
\* loop is never left waiting for in-flight tasks the task does not depend on.
C27_ReadyIsNotKeptWaiting ==
    (pc = "executing" /\ plan.strategy = "mixed" /\ ReadyTasks # {}
        /\ Cardinality(inProgress) < maxParallelTasks) => LoopCanTurn

----------------------------------------------------------------------------
(* The strategies of the RLMExecutor, checked under SpecRLM *)

\* the decomposition the decompose call was answered with
Decomposed == allCalls[1].reply

\* not an array of {subtask, needs}
Malformed(r) ==
    \/ r.kind \in {"unparsable", "nonArray"}
    \/ r.kind = "array" /\ \E k \in DOMAIN r.subtasks : r.subtasks[k].kind = "malformed"

\* recursive-decomposition has returned, and neither the provider nor a
\* limit has failed a call
DecompositionReturned ==
    /\ rlmPc = "returned"
    /\ rlmInput.strategy = "recursive-decomposition"
    /\ allCalls # <<>>
    /\ allCalls[1].status = "completed"
    /\ rlmResult.error \notin {BackendError, DepthError, TimeError}

\* exactly one direct call on the full context was made after the decompose
\* call, and execute returned its result
OneDirectCall ==
    /\ rlmResult.success
    /\ Len(allCalls) = 2
    /\ allCalls[2].callId.kind = "direct-call"
    /\ allCalls[2].context = Variables
    /\ rlmResult.result = allCalls[2].result

\* C26 (as claimed): whenever the decomposition is malformed (not parseable,
\* or parseable but not an array of {subtask, needs}), the strategy makes
\* exactly one direct call with the full context and execute returns normally
\* with that call's result.
C26_MalformedDegrades ==
    (DecompositionReturned /\ Malformed(Decomposed)) => OneDirectCall

\* what holds of the code: the same for text JSON.parse throws on
C26_UnparsableDegrades ==
    (DecompositionReturned /\ Decomposed.kind = "unparsable") => OneDirectCall

\* map-reduce runs over a largest variable split into more than one chunk
MapReduceRun ==
    /\ rlmPc \in {"running", "returned"}
    /\ rlmInput.strategy = "map-reduce"
    /\ chunkData(rlmInput.context) > 1

\* the variables a map call over the chunk idx of n is to see
ChunkView(idx, n) ==
    "data" :> Piece("data", idx) @@ "notes" :> Whole("notes")
    @@ "chunk_index" :> Num(idx) @@ "total_chunks" :> Num(n)

\* the map calls are one per chunk, a level down, each on its own chunk
C28_MapCalls ==
    MapReduceRun =>
        LET n == chunkData(rlmInput.context) IN
        /\ \A i \in CallsOf("map") :
              /\ allCalls[i].callId.idx \in 0..(n - 1)
              /\ allCalls[i].depth = 1
              /\ allCalls[i].context = ChunkView(allCalls[i].callId.idx, n)
        /\ \A i, j \in CallsOf("map") :
              allCalls[i].callId.idx = allCalls[j].callId.idx => i = j

\* a reduce call exists only once all n map calls have completed; there is
\* one, a level down, and it holds their results in chunk order
C28_ReduceCall ==
    (MapReduceRun /\ CallsOf("reduce") # {}) =>
        LET n == chunkData(rlmInput.context) IN
        /\ Cardinality(CallsOf("reduce")) = 1
        /\ Cardinality(CallsOf("map")) = n
        /\ \A i \in CallsOf("map") : allCalls[i].status = "completed"
        /\ \A i \in CallsOf("reduce") :
              /\ allCalls[i].depth = 1
              /\ allCalls[i].context =
                    ("data" :> Whole("data") @@ "notes" :> Whole("notes")
                     @@ "chunk_results" :>
                            List([k \in 1..n |-> Answer([kind |-> "map", idx |-> k - 1])]))
        /\ \A i \in CallsOf("map") : allCalls[i].result = Answer(allCalls[i].callId)

\* a successful run has made the n map calls and the reduce call, and no other
C28_SuccessfulRun ==
    (MapReduceRun /\ rlmPc = "returned" /\ rlmResult.success) =>
        /\ CallsOf("reduce") # {}
        /\ rlmResult.trajectory.totalCalls = chunkData(rlmInput.context) + 1
        /\ Len(allCalls) = chunkData(rlmInput.context) + 1

\* C28: a successful map-reduce run over n > 1 chunks issues exactly n map
\* calls, one per chunk, at depth 1, each with the chunked variable replaced
\* by its chunk plus its index and the total, then exactly one reduce call,
\* made only after all n map calls have completed, whose context holds the n
\* results in chunk order; the trajectory counts n + 1 calls.
C28_MapThenReduce == C28_MapCalls /\ C28_ReduceCall /\ C28_SuccessfulRun

\* a run over the most chunks succeeded and returned what the reduce call gave
C28_Witness ==
    /\ MapReduceRun
    /\ rlmPc = "returned"
    /\ rlmResult.success
    /\ chunkData(rlmInput.context) = MaxChunks
    /\ rlmResult.result = Answer([kind |-> "reduce", idx |-> 0])

\* sequential-processing runs over the items of a largest variable
SequentialRun ==
    /\ rlmPc \in {"running", "returned"}
    /\ rlmInput.strategy = "sequential-processing"
    /\ rlmInput.context.kind # "small"

\* k: the elements of an array, the chunks of a string, one for another object
ItemCount ==
    IF rlmInput.context.kind = "array" THEN rlmInput.context.length
    ELSE IF rlmInput.context.kind = "string" THEN rlmInput.context.chunks
    ELSE 1

\* the variables the call on the item idx of n is to see
ItemView(idx, n, previous) ==
    "data" :> Piece("data", idx) @@ "notes" :> Whole("notes")
    @@ "previous_result" :> previous @@ "item_index" :> Num(idx)
    @@ "total_items" :> Num(n)

\* the calls are made in item order, each after the one before has
\* completed and with its result as previous_result; nothing follows a
\* failed call
C29_OneAfterAnother ==
    SequentialRun =>
        /\ Len(allCalls) <= ItemCount
        /\ \A i \in DOMAIN allCalls :
              /\ allCalls[i].callId = [kind |-> "seq", idx |-> i - 1]
              /\ i > 1 => allCalls[i - 1].status = "completed"
              /\ allCalls[i].context =
                    ItemView(i - 1, ItemCount,
                             IF i = 1 THEN Null ELSE allCalls[i - 1].result)
              /\ allCalls[i].status = "completed" =>
                    allCalls[i].result = Answer(allCalls[i].callId)
              /\ allCalls[i].status = "failed" => i = Len(allCalls)

\* a successful run has made the k calls and returns the result of the last
C29_ReturnsLast ==
    (SequentialRun /\ rlmPc = "returned") =>
        /\ rlmResult.success =>
              /\ Len(allCalls) = ItemCount
              /\ rlmResult.trajectory.totalCalls = ItemCount
              /\ rlmResult.result = allCalls[ItemCount].result
              /\ allCalls[ItemCount].status = "completed"
        /\ rlmResult.error = BackendError =>
              /\ ~rlmResult.success
              /\ allCalls[Len(allCalls)].status = "failed"

\* C29: sequential-processing over k items makes exactly k calls one after
\* another, call i+1 only after call i has completed and with the result of
\* call i as previous_result (null for the first call); the result of the
\* last call is returned, and a failing call stops the run: no call follows.
C29_SequentialCalls == C29_OneAfterAnother /\ C29_ReturnsLast

\* a run over the items of an array succeeded
C29_Witness ==
    /\ SequentialRun
    /\ rlmPc = "returned"
    /\ rlmResult.success
    /\ rlmInput.context.kind = "array"
    /\ Len(allCalls) > ArrayChunkSize

\* recursive-decomposition runs on a decomposition that is an array
SubtaskRun ==
    /\ rlmPc \in {"running", "returned"}
    /\ rlmInput.strategy = "recursive-decomposition"
    /\ allCalls # <<>>
    /\ Decomposed.kind = "array"

\* the needs the subtask of the call at position i declared
NeedsOf(i) == Range(Decomposed.subtasks[allCalls[i].callId.idx + 1].needs)

\* the combine call exists only once every subtask call has completed
CombineAfterSubtasks ==
    CallsOf("combine") # {} =>
        /\ Cardinality(CallsOf("subtask")) = Len(Decomposed.subtasks)
        /\ \A i \in CallsOf("subtask") : allCalls[i].status = "completed"

\* C30 (as claimed): the context variables of a subtask call are exactly the
\* declared needs of the subtask that exist in the original context, with
\* their values there; the combine call is made only after all subtask calls
\* have completed.
C30_OnlyDeclaredNeeds ==
    SubtaskRun =>
        /\ \A i \in CallsOf("subtask") :
              /\ DOMAIN allCalls[i].context = NeedsOf(i) \cap VariableNames
              /\ \A k \in DOMAIN allCalls[i].context : allCalls[i].context[k] = Whole(k)
        /\ CombineAfterSubtasks

\* what holds of the code: no variable of the original context that the
\* subtask did not declare is among its context variables, the declared ones
\* that exist are there with their values, and the combine call comes last
C30_UndeclaredHidden ==
    SubtaskRun =>
        /\ \A i \in CallsOf("subtask") :
              /\ DOMAIN allCalls[i].context \cap VariableNames
                    = NeedsOf(i) \cap VariableNames
              /\ DOMAIN allCalls[i].context \subseteq NeedsOf(i)
              /\ \A k \in DOMAIN allCalls[i].context \cap VariableNames :
                    allCalls[i].context[k] = Whole(k)
        /\ CombineAfterSubtasks

----------------------------------------------------------------------------
(* Properties of the AgentReflector, checked under SpecReflector *)

\* the calls of analyzeResult in which the backend was unreachable or its
\* response could not be parsed
FallbackCalls == {i \in DOMAIN reflections : reflections[i].backend \in {"throw", "garbled"}}

\* no call threw, and the fallbacks of one unchanged task are equal
FallbackIsSafe ==
    /\ \A i \in DOMAIN reflections : ~reflections[i].thrown
    /\ \A i, j \in FallbackCalls : reflections[i].reflection = reflections[j].reflection

\* the fallback of a completed task
CompletedFallback(r) ==
    r.success /\ r.confidence = "0.8" /\ r.issues = <<>> /\ ~r.shouldRetry

\* the fallback of a failed task with that issue
FailedFallback(r, issue) ==
    ~r.success /\ r.confidence = "0" /\ r.issues = <<issue>> /\ r.shouldRetry

\* C25 (as claimed): when the backend is unreachable or its response cannot
\* be parsed, analyzeResult does not throw, a completed task gives success
\* true, confidence 0.8, no issues and no retry, a failed task gives success
\* false, confidence 0, issues = [stored error] and retry suggested, and
\* repeated calls on an unchanged task return equal reflections.
C25_FallbackAsClaimed ==
    /\ FallbackIsSafe
    /\ \A i \in FallbackCalls :
          /\ reflTask.status = "completed" => CompletedFallback(reflections[i].reflection)
          /\ reflTask.status = "failed" =>
                FailedFallback(reflections[i].reflection, reflTask.error.text)

\* C25 (amended): the same, but the issue of a failed task is the stored
\* error only when that is a non-empty string, and "Task failed" when the
\* task stores no error or an empty one.
C25_FallbackByStatus ==
    /\ FallbackIsSafe
    /\ \A i \in FallbackCalls :
          /\ reflTask.status = "completed" => CompletedFallback(reflections[i].reflection)
          /\ reflTask.status = "failed" =>
                FailedFallback(reflections[i].reflection,
                               IF reflTask.error.type = "string" /\ reflTask.error.text # ""
                               THEN reflTask.error.text ELSE "Task failed")

\* a failed task with no stored error was analysed twice through the fallback
C25_Witness ==
    /\ reflTask.status = "failed"
    /\ reflTask.error = NoError
    /\ Len(reflections) = MaxReflections
    /\ FallbackCalls = DOMAIN reflections
    /\ reflections[1].backend # reflections[2].backend

----------------------------------------------------------------------------
(* One RLMExecutor whose execute is called twice (sequential-processing on  *)
(* a list of items): the fields trajectory and startTime belong to the      *)
(* instance, so both invocations read and write the same ones               *)

\* latest reading of Date.now()
MaxClock == 3
\* most items in the list one invocation processes
MaxItems == 2
\* greatest maxExecutionTime configured
MaxTimeout == 2

\* the RLMCall object makeRLMCall pushes for item i of invocation r
SharedCall(r, i, at) ==
    [invocation |-> r, item |-> i, status |-> "running", startTime |-> at]

\* new RLMExecutor({maxExecutionTime}) with one of the given limits
NewSharedExecutor(limits) ==
    /\ executor = NoExecutor
    /\ \E t \in limits :
          executor' = [maxExecutionTime |-> t, startTime |-> 0, trajectory |-> 0]
    /\ UNCHANGED <<agentVars, rlmVars, reflVars, resolveVars, chunkVars, clock, heap,
                   invocation>>

\* Date.now() moves on
ClockTicks ==
    /\ executor # NoExecutor
    /\ clock < MaxClock
    /\ clock' = clock + 1
    /\ UNCHANGED <<agentVars, rlmVars, reflVars, resolveVars, chunkVars, executor, heap,
                   invocation>>

\* executor.execute(task, {list}, 'sequential-processing'), invocation r, on a
\* list of one of the given lengths, up to its first suspension: startTime
\* and trajectory are reset, the call for the first item passes the checks
\* (depth 1, no time elapsed), is pushed and sent
ExecuteOn(r, counts) ==
    /\ executor # NoExecutor
    /\ invocation[r].pc = "idle"
    /\ \E n \in counts :
          LET array == Len(heap) + 1 IN
          /\ executor' = [executor EXCEPT !.startTime = clock, !.trajectory = array]
          /\ heap' = Append(heap, <<SharedCall(r, 1, clock)>>)
          /\ invocation' = [invocation EXCEPT ![r] =
                               [pc |-> "awaiting", began |-> clock, items |-> n,
                                made |-> 1, refusedAt |-> 0, last |-> <<array, 1>>,
                                result |-> NoOutcome]]
    /\ UNCHANGED <<agentVars, rlmVars, reflVars, resolveVars, chunkVars, clock>>

\* the provider answers (ok) or fails the call invocation r is awaiting:
\* makeRLMCall settles the call object; then the loop makes the call for the
\* next item (checked against this.startTime, pushed to this.trajectory), or
\* execute returns with buildTrajectory() of this.trajectory
ProviderSettles(r, ok) ==
    /\ invocation[r].pc = "awaiting"
    /\ LET a == invocation[r].last[1]
           i == invocation[r].last[2]
           settled == [heap EXCEPT ![a][i].status = IF ok THEN "completed" ELSE "failed"]
           current == executor.trajectory
           more == ok /\ invocation[r].made < invocation[r].items
           refused == more /\ clock - executor.startTime >= executor.maxExecutionTime
       IN IF more /\ ~refused
          THEN /\ heap' = [settled EXCEPT ![current] =
                              Append(@, SharedCall(r, invocation[r].made + 1, clock))]
               /\ invocation' = [invocation EXCEPT
                                    ![r].made = @ + 1,
                                    ![r].last = <<current, Len(settled[current]) + 1>>]
          ELSE /\ heap' = settled
               /\ invocation' = [invocation EXCEPT
                                    ![r].pc = "returned",
                                    ![r].refusedAt = IF refused THEN clock ELSE 0,
                                    ![r].result =
                                        [success |-> ok /\ ~refused,
                                         error |-> IF refused THEN TimeError
                                                   ELSE IF ok THEN "" ELSE BackendError,
                                         allCalls |-> current,
                                         calls |-> settled[current]]]
    /\ UNCHANGED <<agentVars, rlmVars, reflVars, resolveVars, chunkVars, clock, executor>>

NextShared ==
    \/ NewSharedExecutor(1..MaxTimeout)
    \/ ClockTicks
    \/ \E r \in Invocations : ExecuteOn(r, 1..MaxItems)
    \/ \E r \in Invocations : ProviderSettles(r, TRUE)
    \/ \E r \in Invocations : ProviderSettles(r, FALSE)

SpecShared == Init /\ [][NextShared]_vars

\* the calls invocation r has made, wherever they were pushed
CallsMadeBy(r) ==
    {c \in UNION {Range(heap[a]) : a \in DOMAIN heap} : c.invocation = r}

\* C31: the trajectory an execute invocation returns holds exactly the calls
\* of that invocation, item after item, and every call of an invocation was
\* made less than maxExecutionTime after that invocation began, a refusal for
\* time coming no earlier than that; two invocations on one instance included
C31_OwnCallsOwnDeadline ==
    \A r \in Invocations :
       /\ invocation[r].pc = "returned" =>
             LET calls == invocation[r].result.calls IN
             /\ Len(calls) = invocation[r].made
             /\ \A i \in DOMAIN calls : calls[i].invocation = r /\ calls[i].item = i
       /\ \A c \in CallsMadeBy(r) :
             c.startTime - invocation[r].began < executor.maxExecutionTime
       /\ (invocation[r].pc = "returned" /\ invocation[r].result.error = TimeError) =>
             invocation[r].refusedAt - invocation[r].began >= executor.maxExecutionTime

\* an invocation that ran alone, from its start to its return, has returned
\* its own calls and kept its own deadline
C31_AloneIsOwn ==
    (\E r \in Invocations : invocation[r].pc = "idle") => C31_OwnCallsOwnDeadline

----------------------------------------------------------------------------
(* Observers that throw, and tools that throw values of any kind, on plans  *)
(* of at most MaxToolTasks tasks                                            *)

\* what a tool or an observer can throw: an Error object with a message, or a
\* value that is not an Error (here a string), written text
ErrorObject(message) == [isError |-> TRUE, text |-> message]
NonError(text) == [isError |-> FALSE, text |-> text]

\* error instanceof Error ? error.message : 'Unknown error'
MessageOf(raised) == IF raised.isError THEN raised.text ELSE "Unknown error"

\* what the tools of the model throw, attempt by attempt
RaisedValues == {ErrorObject("tool error"), ErrorObject("timeout"), NonError("quota exceeded")}

\* what a throwing observer throws
ObserverError == ErrorObject("observer error")

\* toolRegistry.execute rejects for the task id with one of the given values:
\* retry (executeTask again, up to the next call of the registry), or give
\* up, and the observer of failures returns
ToolThrowsValue(id, raised) ==
    /\ pc = "executing"
    /\ id \in DOMAIN status
    /\ status[id] = "in_progress"
    /\ TaskOf(id).tool # "none"
    /\ IF retries[id] < maxRetries
       THEN /\ retries' = [retries EXCEPT ![id] = @ + 1]
            /\ invocations' = [invocations EXCEPT ![id] = @ + 1]
            /\ callbacks' = [callbacks EXCEPT ![id].onProgress = @ + 1]
            /\ UNCHANGED <<status, error, failedTasks, inProgress, loop, cursor>>
       ELSE /\ \E r \in raised : Failed(id, MessageOf(r))
            /\ UNCHANGED <<retries, invocations>>
    /\ UNCHANGED <<rlmVars, reflVars, extraVars, pc, plan, optimized, results, pending,
                   awaited, maxParallelTasks, maxRetries, success, thrown, asked, reply,
                   config>>

\* toolRegistry.execute resolves for the task id, the value is recorded and
\* the status set to completed, and then onTaskComplete throws: the catch
\* block of the strategy runs as for a failed tool
CompleteObserverThrows(id, values) ==
    /\ pc = "executing"
    /\ id \in DOMAIN status
    /\ status[id] = "in_progress"
    /\ TaskOf(id).tool # "none"
    /\ \E v \in values :
          results' = [k \in DOMAIN results \cup {id} |->
                         IF k = id THEN v ELSE results[k]]
    /\ status' = [status EXCEPT ![id] = "failed"]
    /\ error' = [error EXCEPT ![id] = MessageOf(ObserverError)]
    /\ failedTasks' = Append(failedTasks, id)
    /\ callbacks' = [callbacks EXCEPT ![id].onTaskComplete = @ + 1,
                                      ![id].onTaskFailed = @ + 1]
    /\ Settled(id, TRUE)
    /\ UNCHANGED <<rlmVars, reflVars, extraVars, pc, plan, optimized, retries, pending,
                   awaited, maxParallelTasks, maxRetries, success, thrown, asked, reply,
                   config, invocations>>

\* the catch block of executePlan
ReturnedByException ==
    /\ plan' = [plan EXCEPT !.status = "failed"]
    /\ success' = FALSE
    /\ pc' = "returned"
    /\ loop' = "none"

\* the rejection of the promise of the task id is what the strategy is awaiting:
\* always in executeSequential; in executeMixed when the task was launched in
\* this turn and no promise of the turn has settled before (Promise.race);
\* never in executeParallel (Promise.allSettled)
ReachesTheLoop(id) ==
    \/ plan.strategy = "sequential"
    \/ /\ plan.strategy = "mixed"
       /\ loop = "race"
       /\ id \in awaited
       /\ \A other \in awaited \ {id} : status[other] = "in_progress"

\* toolRegistry.execute rejects for the task id when its retries are used up,
\* the catch block of the strategy records the failure, and then onTaskFailed
\* throws: the promise of the task rejects
FailedObserverThrows(id, raised) ==
    /\ pc = "executing"
    /\ id \in DOMAIN status
    /\ status[id] = "in_progress"
    /\ TaskOf(id).tool # "none"
    /\ retries[id] >= maxRetries
    /\ status' = [status EXCEPT ![id] = "failed"]
    /\ \E r \in raised : error' = [error EXCEPT ![id] = MessageOf(r)]
    /\ failedTasks' = Append(failedTasks, id)
    /\ callbacks' = [callbacks EXCEPT ![id].onTaskFailed = @ + 1]
    /\ inProgress' = inProgress \ {id}
    /\ IF ReachesTheLoop(id)
       THEN /\ ReturnedByException
            /\ UNCHANGED cursor
       ELSE UNCHANGED <<plan, success, pc, loop, cursor>>
    /\ UNCHANGED <<rlmVars, reflVars, extraVars, optimized, retries, results, pending,
                   awaited, maxParallelTasks, maxRetries, thrown, asked, reply, config,
                   invocations>>

NextObservers ==
    \/ CallerPlan(ToolPlans)
    \/ ExecutePlan(ToolConfigs)
    \/ SequentialStep
    \/ ParallelStep
    \/ MixedStep
    \/ \E id \in DOMAIN status : ToolReturns(id, {PlainValue})
    \/ \E id \in DOMAIN status : ToolThrowsValue(id, RaisedValues)
    \/ \E id \in DOMAIN status : CompleteObserverThrows(id, {PlainValue})
    \/ \E id \in DOMAIN status : FailedObserverThrows(id, RaisedValues)

SpecObservers == Init /\ [][NextObservers]_vars

----------------------------------------------------------------------------
(* Properties of the observer callbacks and of the recorded errors *)

\* the terminal callbacks made for the task id
Terminal(id) == callbacks[id].onTaskComplete + callbacks[id].onTaskFailed

C32_Counts ==
    \A id \in DOMAIN status :
       /\ status[id] \in {"in_progress", "completed", "failed"} =>
              callbacks[id].onProgress >= 1
       /\ Terminal(id) > 0 => callbacks[id].onProgress >= 1
       /\ status[id] = "completed" =>
              callbacks[id].onTaskComplete = 1 /\ callbacks[id].onTaskFailed = 0
       /\ status[id] = "failed" =>
              callbacks[id].onTaskFailed = 1 /\ callbacks[id].onTaskComplete = 0
       /\ ~(callbacks[id].onTaskComplete > 0 /\ callbacks[id].onTaskFailed > 0)
       /\ status[id] \in {"pending", "skipped"} => Terminal(id) = 0

C32_Order ==
    \A id \in DOMAIN status :
        (id \in DOMAIN callbacks' /\ callbacks'[id].onTaskComplete
             + callbacks'[id].onTaskFailed > Terminal(id)) =>
            callbacks[id].onProgress >= 1

\* C32: onProgress has fired for every task that was started, before any
\* terminal callback of that task; a completed task has had onTaskComplete
\* once and onTaskFailed never, a failed task onTaskFailed once and
\* onTaskComplete never, no task has had both, and a task that was never
\* started (pending or skipped) has had neither
C32_ObserverProtocol == [](C32_Counts) /\ [][C32_Order]_vars

\* what holds of the code: the same with observers that return (SpecTools)
C32_WithQuietObservers == C32_Counts

\* at the return in sequential mode a task is pending only behind a task
\* whose tool has not returned a value
StoppedByTheTool ==
    (pc = "returned" /\ plan.strategy = "sequential") =>
        \A j \in DOMAIN plan.tasks :
            status[plan.tasks[j].id] = "pending" =>
                \E i \in 1..(j - 1) : plan.tasks[i].id \notin DOMAIN results

\* C33: an observer that throws changes nothing: a task whose tool has
\* returned its value (an entry in results) is completed, not failed;
\* executePlan does not return while a task is in progress; and the
\* sequential loop stops only behind a task whose tool failed
C33_ObserversAreFireAndForget ==
    /\ \A id \in DOMAIN results : status[id] = "completed"
    /\ pc = "returned" => \A id \in DOMAIN status : status[id] # "in_progress"
    /\ StoppedByTheTool

\* the last attempt of the task id ends with the value r thrown by the tool,
\* all retries used up
GivesUp(id, r) ==
    /\ id \in DOMAIN status
    /\ status[id] = "in_progress"
    /\ retries[id] >= maxRetries
    /\ ToolThrowsValue(id, {r})

\* C35: a task that fails with its retries used up records what the last
\* attempt threw, as it is: the message of an Error, the text of a thrown
\* value that is not an Error
C35_LastErrorVerbatim ==
    [][\A id \in FirstIds(MaxToolTasks) : \A r \in RaisedValues :
           GivesUp(id, r) => error'[id] = r.text]_vars

\* what holds of the code: the message of the last Error thrown is recorded,
\* and 'Unknown error' for any other thrown value
C35_LastMessageOrPlaceholder ==
    [][\A id \in FirstIds(MaxToolTasks) : \A r \in RaisedValues :
           GivesUp(id, r) => error'[id] = MessageOf(r)]_vars

----------------------------------------------------------------------------
(* The accounting at the return of executePlan, checked under SpecTools *)

\* how often the task id occurs in failedTasks
TimesFailed(id) == Cardinality({k \in DOMAIN failedTasks : failedTasks[k] = id})

\* C34: when executePlan has returned in parallel or mixed mode (observers
\* returning), no task is in flight, every task is either completed with its
\* identifier a key of results, or failed or skipped with its error set and
\* exactly one occurrence in failedTasks, none is pending or in_progress, and
\* plan.completedTasks is the number of completed tasks
C34_AccountedAtReturn ==
    (pc = "returned" /\ plan.strategy \in {"parallel", "mixed"}) =>
        /\ inProgress = {}
        /\ \A id \in DOMAIN status :
              \/ /\ status[id] = "completed"
                 /\ id \in DOMAIN results
                 /\ TimesFailed(id) = 0
              \/ /\ status[id] \in {"failed", "skipped"}
                 /\ error[id] # ""
                 /\ TimesFailed(id) = 1
        /\ plan.completedTasks =
               Cardinality({id \in DOMAIN status : status[id] = "completed"})

\* C34 witness: a mixed run has returned with one task failed after its tool
\* threw and the task that depends on it skipped
C34_Witness ==
    /\ pc = "returned"
    /\ plan.strategy = "mixed"
    /\ \E a, b \in DOMAIN status :
          /\ status[a] = "failed"
          /\ invocations[a] >= 1
          /\ status[b] = "skipped"

----------------------------------------------------------------------------
(* Tasks without a tool, checked under Spec *)

NoToolError == "Task has no tool specified"

\* the plan being executed is the Planner's fallback plan for the request
IsFallbackPlan ==
    /\ reply # NoReply
    /\ plan.tasks = createFallbackPlan(asked).tasks
    /\ plan.strategy = createFallbackPlan(asked).strategy

----------------------------------------------------------------------------
(* ParallelExecutor.resolveDependencies on a task with one dependency,      *)
(* task-0, and one argument x, a string with a placeholder; texts are       *)
(* sequences of characters                                                  *)

\* most characters in a string result
MaxValueLen == 2

Quote == "\""
Backslash == "\\"

\* the placeholders: the whole result of task-0, or its field k
WholeRef == "${task-0}"
FieldRef == "${task-0.k}"
Placeholders == {WholeRef, FieldRef}

\* the argument x: a placeholder alone, between letters, or after a quote
Templates ==
    UNION {{<<ref>>, <<"a", ref, "a">>, <<Quote, ref>>} : ref \in Placeholders}

\* a result with fields: the object {k: leaf}
ObjectOf(leaf) == [type |-> "object", chars |-> <<>>, k |-> leaf]

\* a result without fields
Plain(type, chars) == [type |-> type, chars |-> chars, k |-> NoLeaf]

Leaves ==
    {Leaf("string", chars) : chars \in {<<"a">>, <<Quote>>, <<Backslash, "a">>}}
    \cup {Leaf("number", <<"7">>)}

\* what the results map can hold for task-0
ResultValues ==
    {Plain("string", chars) :
        chars \in SeqsUpTo({"a", Quote, Backslash}, MaxValueLen)}
    \cup {Plain("number", <<"7">>)}
    \cup {ObjectOf(leaf) : leaf \in Leaves}
    \cup {NoRecordedResult}

\* JSON.stringify of a string, without the enclosing quotes
RECURSIVE Escaped(_)
Escaped(chars) ==
    IF chars = <<>> THEN <<>>
    ELSE (IF Head(chars) \in {Quote, Backslash}
          THEN <<Backslash, Head(chars)>> ELSE <<Head(chars)>>)
         \o Escaped(Tail(chars))

\* JSON.stringify of a string or a number
StringifiedLeaf(leaf) ==
    IF leaf.type = "string" THEN <<Quote>> \o Escaped(leaf.chars) \o <<Quote>>
    ELSE leaf.chars

\* JSON.stringify(value)
Stringified(value) ==
    IF value.type = "object"
    THEN <<"{", Quote, "k", Quote, ":">> \o StringifiedLeaf(value.k) \o <<"}">>
    ELSE StringifiedLeaf(value)

\* the value the path of the placeholder leads to: value?.[key]
ValueAt(ref, result) ==
    IF ref = WholeRef THEN result
    ELSE IF result.type = "object" THEN Plain(result.k.type, result.k.chars)
    ELSE NoRecordedResult

\* the replacement function of argsStr.replace: the text put in the place of
\* the placeholder (String.replace writes 'undefined' for an undefined return)
Replacement(ref, result) ==
    IF result.type = "undefined" THEN <<ref>>
    ELSE LET value == ValueAt(ref, result) IN
         IF value.type = "string" THEN value.chars
         ELSE IF value.type = "undefined" THEN <<"undefined">>
         ELSE Stringified(value)

\* the body of the string x in resolvedStr: JSON.stringify(args) with every
\* placeholder replaced
RECURSIVE Replaced(_, _)
Replaced(template, result) ==
    IF template = <<>> THEN <<>>
    ELSE (IF Head(template) \in Placeholders
          THEN Replacement(Head(template), result)
          ELSE Escaped(<<Head(template)>>))
         \o Replaced(Tail(template), result)

SyntaxError == [ok |-> FALSE, chars |-> <<>>]

\* JSON.parse of the string x: an escaped quote or backslash is that
\* character, any other escape and any bare quote is a SyntaxError (the
\* quote ends the string and what follows is no JSON)
RECURSIVE Parsed(_)
Parsed(text) ==
    IF text = <<>> THEN [ok |-> TRUE, chars |-> <<>>]
    ELSE IF Head(text) = Quote THEN SyntaxError
    ELSE IF Head(text) = Backslash
    THEN IF Len(text) >= 2 /\ text[2] \in {Quote, Backslash}
         THEN LET rest == Parsed(Tail(Tail(text))) IN
              IF rest.ok THEN [ok |-> TRUE, chars |-> <<text[2]>> \o rest.chars]
              ELSE SyntaxError
         ELSE SyntaxError
    ELSE LET rest == Parsed(Tail(text)) IN
         IF rest.ok THEN [ok |-> TRUE, chars |-> <<Head(text)>> \o rest.chars]
         ELSE SyntaxError

\* resolveDependencies(task, results): the argument x it returns, or the
\* SyntaxError it throws
resolveDependencies(template, result) ==
    LET parsed == Parsed(Replaced(template, result)) IN
    [outcome |-> IF parsed.ok THEN "returned" ELSE "threw", x |-> parsed.chars]

\* a caller has the task {args: {x}, dependencies: ['task-0']} and the results
\* map, with or without an entry for task-0; a path is used on objects
TaskWithPlaceholder(templates, values) ==
    /\ resolveInput = NoResolveInput
    /\ \E template \in templates, result \in values :
          /\ (FieldRef \in Range(template)) => result.type \in {"object", "undefined"}
          /\ resolveInput' = [template |-> template, result |-> result]
    /\ UNCHANGED <<agentVars, rlmVars, reflVars, sharedVars, chunkVars, resolved>>

\* executeTask calls this.resolveDependencies(task, completedResults)
ResolveDependencies ==
    /\ resolveInput # NoResolveInput
    /\ resolved = NotResolved
    /\ resolved' = resolveDependencies(resolveInput.template, resolveInput.result)
    /\ UNCHANGED <<agentVars, rlmVars, reflVars, sharedVars, chunkVars, resolveInput>>

NextResolve ==
    \/ TaskWithPlaceholder(Templates, ResultValues)
    \/ ResolveDependencies

SpecResolve == Init /\ [][NextResolve]_vars

\* what the claim expects of x: the template with every placeholder replaced
\* by the string as it is, by the JSON text of any other value, or left as it
\* was when task-0 has no recorded result
RECURSIVE Expected(_, _)
Expected(template, result) ==
    IF template = <<>> THEN <<>>
    ELSE (IF Head(template) \in Placeholders
          THEN (IF result.type = "undefined" THEN <<Head(template)>>
                ELSE LET value == ValueAt(Head(template), result) IN
                     IF value.type = "string" THEN value.chars
                     ELSE Stringified(value))
          ELSE <<Head(template)>>)
         \o Expected(Tail(template), result)

\* C36: resolveDependencies returns, and the argument holds the value at the
\* placeholder's path in the place of the placeholder, a string as it is and
\* any other value as its JSON text, whatever the value (quotes, backslashes
\* and objects included); the placeholder of a task without recorded result
\* is left as it was
C36_PlaceholdersResolved ==
    resolved # NotResolved =>
        /\ resolved.outcome = "returned"
        /\ resolved.x = Expected(resolveInput.template, resolveInput.result)

\* what holds of the code: the call leaves the task and its stored args alone
C36_StoredArgsKept ==
    [][resolveInput # NoResolveInput => resolveInput' = resolveInput]_vars

\* the text of a value has no quote and no backslash
Harmless(value) ==
    /\ value.type \in {"string", "number", "undefined"}
    /\ Range(value.chars) \cap {Quote, Backslash} = {}

\* what holds of the code: the same for strings without quote or backslash,
\* numbers and missing results
C36_HarmlessResolved ==
    (resolved # NotResolved /\ Harmless(resolveInput.result)) =>
        /\ resolved.outcome = "returned"
        /\ resolved.x = Expected(resolveInput.template, resolveInput.result)

----------------------------------------------------------------------------
(* DataChunker (src/lib/ai/types.ts) on short strings and lists; a          *)
(* string is the sequence of its characters                                 *)

\* most characters in a string, most items in a list
MaxTextLen == 4
\* greatest chunkSize given
MaxChunkSize == 2
\* greatest overlap given
MaxOverlap == 2
\* turns of the fixed-size loop that are followed
MaxTurns == 6

DefaultChunkSize == 1000
DefaultListChunkSize == 10

\* the characters of the strings: a letter, a blank, a sentence terminator
Characters == {"a", " ", "."}
Terminators == {"."}

Texts4 == SeqsUpTo(Characters, MaxTextLen)

\* the strategies given: a method, a chunk size of 1 or more, any overlap
ChunkingStrategies ==
    [method : {"fixed-size", "semantic"}, chunkSize : 1..MaxChunkSize,
     overlap : 0..MaxOverlap]

ChunkInputs ==
    [data : [type : {"string", "list"}, items : Texts4], strategy : ChunkingStrategies]

\* the concatenation of the chunks, in order
RECURSIVE Joined(_)
Joined(list) == IF list = <<>> THEN <<>> ELSE Head(list) \o Joined(Tail(list))

\* an index of String.prototype.slice: negative counts from the end, and the
\* result is kept within the string
SliceIndex(text, at) ==
    IF at < 0 THEN (IF Len(text) + at < 0 THEN 0 ELSE Len(text) + at)
    ELSE IF at > Len(text) THEN Len(text) ELSE at

\* text.slice(from, to), data.slice(from, to)
Slice(text, from, to) ==
    SubSeq(text, SliceIndex(text, from) + 1, SliceIndex(text, to))

\* chunkArray(data, strategy)
RECURSIVE ArrayChunksFrom(_, _, _)
ArrayChunksFrom(data, i, chunkSize) ==
    IF i < Len(data)
    THEN <<Slice(data, i, i + chunkSize)>> \o ArrayChunksFrom(data, i + chunkSize, chunkSize)
    ELSE <<>>

chunkArray(data, strategy) ==
    ArrayChunksFrom(data, 0, OrDefault(strategy.chunkSize, DefaultListChunkSize))

\* the last index of the run of characters of the class (terminators or not)
\* that starts at index i; i - 1 when the run is empty
RECURSIVE RunEnd(_, _, _)
RunEnd(text, i, terminators) ==
    IF i <= Len(text) /\ ((text[i] \in Terminators) <=> terminators)
    THEN RunEnd(text, i + 1, terminators)
    ELSE i - 1

\* text.match(/[^.!?]+[.!?]+/g) from index i on: each match is a run of other
\* characters followed by a run of terminators
RECURSIVE MatchesFrom(_, _)
MatchesFrom(text, i) ==
    IF i > Len(text) THEN <<>>
    ELSE IF text[i] \in Terminators THEN MatchesFrom(text, i + 1)
    ELSE LET j == RunEnd(text, i, FALSE)
             k == RunEnd(text, j + 1, TRUE)
         IN IF k = j THEN <<>>
            ELSE <<SubSeq(text, i, k)>> \o MatchesFrom(text, k + 1)

\* text.match(...) || [text]
Sentences(text) ==
    IF MatchesFrom(text, 1) = <<>> THEN <<text>> ELSE MatchesFrom(text, 1)

\* String.prototype.trim
RECURSIVE Trim(_)
Trim(text) ==
    IF text = <<>> THEN <<>>
    ELSE IF Head(text) = " " THEN Trim(Tail(text))
    ELSE IF text[Len(text)] = " " THEN Trim(SubSeq(text, 1, Len(text) - 1))
    ELSE text

\* the for loop of semanticChunking and the push after it
RECURSIVE Accumulated(_, _, _, _)
Accumulated(sentences, currentChunk, out, targetSize) ==
    IF sentences = <<>>
    THEN (IF Len(currentChunk) > 0 THEN Append(out, Trim(currentChunk)) ELSE out)
    ELSE IF Len(currentChunk) + Len(Head(sentences)) > targetSize /\ Len(currentChunk) > 0
    THEN Accumulated(Tail(sentences), Head(sentences),
                     Append(out, Trim(currentChunk)), targetSize)
    ELSE Accumulated(Tail(sentences), currentChunk \o Head(sentences), out, targetSize)

semanticChunking(text, targetSize) == Accumulated(Sentences(text), <<>>, <<>>, targetSize)

\* DataChunker.chunk(data, strategy) with one of the given inputs: a list is
\* chunked by chunkArray, a string by the method of the strategy; the
\* fixed-size method enters its loop
Chunk(inputs) ==
    /\ chunkPc = "idle"
    /\ \E input \in inputs :
          /\ chunkInput' = input
          /\ chunkStart' = 0
          /\ IF input.data.type = "list"
             THEN /\ chunksOut' = chunkArray(input.data.items, input.strategy)
                  /\ chunkPc' = "done"
             ELSE IF input.strategy.method = "semantic"
             THEN /\ chunksOut' = semanticChunking(input.data.items,
                                      OrDefault(input.strategy.chunkSize, DefaultChunkSize))
                  /\ chunkPc' = "done"
             ELSE /\ chunksOut' = <<>>
                  /\ chunkPc' = IF 0 < Len(input.data.items) THEN "loop" ELSE "done"
    /\ UNCHANGED <<agentVars, rlmVars, reflVars, sharedVars, resolveVars>>

\* one turn of the while loop of fixedSizeChunking
FixedSizeTurn ==
    /\ chunkPc = "loop"
    /\ Len(chunksOut) < MaxTurns
    /\ LET text == chunkInput.data.items
           chunkSize == OrDefault(chunkInput.strategy.chunkSize, DefaultChunkSize)
           overlap == OrDefault(chunkInput.strategy.overlap, 0)
           end == IF chunkStart + chunkSize < Len(text) THEN chunkStart + chunkSize
                  ELSE Len(text)
           start == end - overlap
       IN /\ chunksOut' = Append(chunksOut, Slice(text, chunkStart, end))
          /\ chunkStart' = start
          /\ chunkPc' = IF start >= Len(text) - overlap \/ ~(start < Len(text))
                        THEN "done" ELSE "loop"
    /\ UNCHANGED <<agentVars, rlmVars, reflVars, sharedVars, resolveVars, chunkInput>>

NextChunker ==
    \/ Chunk(ChunkInputs)
    \/ FixedSizeTurn

SpecChunker == Init /\ [][NextChunker]_vars

\* the call is one of fixedSizeChunking
FixedSize == chunkInput.data.type = "string" /\ chunkInput.strategy.method = "fixed-size"

C38_ChunksFit ==
    FixedSize => \A i \in DOMAIN chunksOut : Len(chunksOut[i]) <= chunkInput.strategy.chunkSize

C38_TurnAdvances ==
    (FixedSize /\ chunkPc = "loop") => (chunkPc' = "done" \/ chunkStart' > chunkStart)

\* C38: fixed-size chunking terminates for every string, chunk size of 1 or
\* more and overlap of 0 or more: every turn of its loop either ends it or
\* moves start forward (start is bounded by the length of the string, and the
\* loop is deterministic, so a turn that does neither repeats for ever); and
\* no chunk is longer than chunkSize
C38_FixedSizeTerminates == [](C38_ChunksFit) /\ [][C38_TurnAdvances]_vars

\* what holds of the code: the same when the overlap is less than chunkSize
C38_TerminatesBelowChunkSize ==
    [][chunkInput.strategy.overlap < chunkInput.strategy.chunkSize
           => C38_TurnAdvances]_vars

\* a string without its blanks
RECURSIVE NoBlanks(_)
NoBlanks(text) ==
    IF text = <<>> THEN <<>>
    ELSE (IF Head(text) = " " THEN <<>> ELSE <<Head(text)>>) \o NoBlanks(Tail(text))

\* C39: when chunk has returned, the chunks put together in order are the
\* input: exactly for a list and for a string with fixed-size chunking and
\* overlap 0; up to blanks for a string with semantic chunking, the text
\* after the last sentence terminator included
C39_NothingLost ==
    chunkPc = "done" =>
        LET data == chunkInput.data.items IN
        /\ chunkInput.data.type = "list" => Joined(chunksOut) = data
        /\ (FixedSize /\ chunkInput.strategy.overlap = 0) => Joined(chunksOut) = data
        /\ (chunkInput.data.type = "string" /\ chunkInput.strategy.method = "semantic") =>
               NoBlanks(Joined(chunksOut)) = NoBlanks(data)

\* what holds of the code: lists and fixed-size chunking without overlap
C39_ListsAndFixedSize ==
    chunkPc = "done" =>
        /\ chunkInput.data.type = "list" => Joined(chunksOut) = chunkInput.data.items
        /\ (FixedSize /\ chunkInput.strategy.overlap = 0) =>
               Joined(chunksOut) = chunkInput.data.items
====
